---- MODULE Spec2Model ----
(***************************************************************************)
(* Model of the surf-report backend core: the source orchestrator          *)
(* (fetchSurfData and the per-source wrappers), the GET /:spotId           *)
(* conditions route around it, and the aggregator (aggregateData).         *)
(*                                                                         *)
(* Numbers.  Every adapter rounds what it emits: heights to one decimal,   *)
(* everything else to an integer.  Heights are therefore modelled as       *)
(* integers counting tenths of a metre (1.2 m is 12); periods, speeds and  *)
(* temperatures as integers.  Means are exact rationals sum/length and     *)
(* Math.round is round-half-up on them; binary floating-point error of     *)
(* the JavaScript doubles is outside this model.                           *)
(***************************************************************************)
EXTENDS Integers, Sequences, FiniteSets, TLC

VARIABLES
    \* ---- orchestrator and conditions route ----
    routePc,       \* position of the GET /:spotId handler
    refresh,       \* the request's ?refresh flag
    adapter,       \* per registered wrapper: its promise and invocation count
    fetchResult,   \* how fetchSurfData completed: pending, returned list, thrown
    counts,        \* failures.length, nullResults.length, successfulData.length
    cache,         \* node-cache entry under conditions:<spotId>
    wroteCache,    \* cache.set was called by the current request
    response,      \* what the handler sent
    \* ---- aggregator called as a pure function ----
    aggPc,         \* "ready" before the call, "done" after it
    sources,       \* the argument list of aggregateData
    aggregated,    \* the object aggregateData builds and returns
    \* ---- hourly aggregator called as a pure function ----
    hourPc,        \* "ready" before the call, "done" after it
    hourSources,   \* the argument list of aggregateHourlyData
    timeline,      \* the array aggregateHourlyData returns
    \* ---- scorer called as a pure function ----
    scorePc,       \* "ready" before the call, "done" or "threw" after it
    scoreArgs,     \* conditions, spotId and sourceCount of calculateSurfScore
    scoreResult,   \* the object calculateSurfScore returns
    \* ---- trend analysis called as a pure function ----
    trendPc,       \* "ready" before the call, "done" or "threw" after it
    trendArgs,     \* hourlyTimeline, spotId, currentScore, and the clock read
    trendResult,   \* what generateTrend returns: <<>> for null, else <<result>>
    \* ---- frontend reweighting (Dashboard.js SpotFeedback) ----
    rwPc,          \* "ready" before the feedback is loaded, "done" after it
    rwArgs,        \* breakdown, weights, multipliers and the original score
    rwResult,      \* what recalculateScore returned: <<>> for null, else <<n>>
    displayed,     \* the score and rating the dashboard shows
    \* ---- POST /api/spots/:spotId/feedback ----
    feedbackFile,  \* allFeedback[spotId] as stored in the feedback file
    feedbackReq,   \* per request: position, interpreter output, response
    feedbackLog,   \* history: every entry ever stored, in the order stored
    \* ---- the conditions cache over time ----
    cacheClock,    \* the time, in minutes
    cacheEntry,    \* the entry under conditions:<spotId>: <<>> or <<entry>>
    cacheReq,      \* per GET request: position, refresh flag, response
    fetchCalls,    \* how many times fetchSurfData was called
    \* ---- callMcpTool ----
    initDone,      \* the initialize response was handled
    settled,       \* finish has run
    mcpPromise,    \* the returned promise: pending, or how it settled
    timerArmed,    \* the timeout is set and not cleared
    killSignals,   \* number of mcpServer.kill('SIGTERM') calls
    stdinWrites,   \* the methods written to the server's stdin, in order
    mcpServer      \* the spawned process: what it emitted so far

routeVars == <<routePc, refresh, adapter, fetchResult, counts, cache, wroteCache, response>>
aggVars == <<aggPc, sources, aggregated>>
hourVars == <<hourPc, hourSources, timeline>>
scoreVars == <<scorePc, scoreArgs, scoreResult>>
trendVars == <<trendPc, trendArgs, trendResult>>
\* the variables of the functions exercised on their own
pureVars == <<hourVars, scoreVars, trendVars>>
rwVars == <<rwPc, rwArgs, rwResult, displayed>>
feedbackVars == <<feedbackFile, feedbackReq, feedbackLog>>
cacheVars == <<cacheClock, cacheEntry, cacheReq, fetchCalls>>
mcpVars == <<initDone, settled, mcpPromise, timerArmed, killSignals, stdinWrites, mcpServer>>
\* the variables of the feedback, cache-lifetime and MCP-client models
extVars == <<rwVars, feedbackVars, cacheVars, mcpVars>>
vars == <<routeVars, aggVars, pureVars, extVars>>

\* no call of aggregateHourlyData is in progress
HourlyIdle ==
    /\ hourPc = "ready"
    /\ hourSources = <<>>
    /\ timeline = <<>>
\* no call of calculateSurfScore is in progress
ScorerIdle ==
    /\ scorePc = "ready"
    /\ scoreArgs = <<>>
    /\ scoreResult = <<>>
\* no call of generateTrend is in progress
TrendIdle ==
    /\ trendPc = "ready"
    /\ trendArgs = <<>>
    /\ trendResult = <<>>
\* no call of the functions exercised on their own is in progress
PureIdle == HourlyIdle /\ ScorerIdle /\ TrendIdle
\* the dashboard has not loaded feedback
ReweightIdle ==
    /\ rwPc = "ready"
    /\ rwArgs = <<>>
    /\ rwResult = <<>>
    /\ displayed = <<>>
\* no feedback request was received
FeedbackIdle ==
    /\ feedbackFile = <<>>
    /\ feedbackReq = <<>>
    /\ feedbackLog = <<>>
\* the cache-lifetime model is not running
CacheIdle ==
    /\ cacheClock = 0
    /\ cacheEntry = <<>>
    /\ cacheReq = <<>>
    /\ fetchCalls = 0
\* callMcpTool was not called
McpIdle ==
    /\ initDone = FALSE
    /\ settled = FALSE
    /\ mcpPromise = "none"
    /\ timerArmed = FALSE
    /\ killSignals = 0
    /\ stdinWrites = <<>>
    /\ mcpServer = <<>>
ExtIdle == ReweightIdle /\ FeedbackIdle /\ CacheIdle /\ McpIdle

----------------------------------------------------------------------------
(* JavaScript values *)

\* null / undefined of a numeric field (outside every value range used)
Null == -999
\* null of a direction field
NullDir == "null"

\* if (x) on a number: null, undefined and 0 are falsy
Truthy(x) == x # Null /\ x # 0
\* if (d) on a direction string: null and "" are falsy
TruthyDir(d) == d # NullDir /\ d # ""

\* a swell sub-record that is null (every x?.swell?.f read gives undefined)
NoSwell == [height |-> Null, period |-> Null, direction |-> NullDir]

\* Math.round(num / den) for den > 0: nearest integer, halves toward +infinity
MathRound(num, den) == (2 * num + den) \div (2 * den)

RECURSIVE SumSeq(_)
SumSeq(s) == IF s = <<>> THEN 0 ELSE Head(s) + SumSeq(Tail(s))

----------------------------------------------------------------------------
(* Aggregator: services/scraper.js aggregateData *)

\* the object aggregateData starts from: every field null
EmptyAggregated ==
    [waves |-> [height |-> [min |-> Null, max |-> Null, avg |-> Null],
                period |-> Null, direction |-> NullDir, swell |-> NoSwell],
     wind |-> [speed |-> Null, direction |-> NullDir, gusts |-> Null],
     weather |-> [airTemp |-> Null, waterTemp |-> Null]]

GetWaveHeightAvg(s) == s.data.waves.height.avg
GetWaveHeightMin(s) == s.data.waves.height.min
GetWaveHeightMax(s) == s.data.waves.height.max
GetWavePeriod(s) == s.data.waves.period
GetWaveDirection(s) == s.data.waves.direction
GetSwellHeight(s) == s.data.waves.swell.height
GetSwellPeriod(s) == s.data.waves.swell.period
GetSwellDirection(s) == s.data.waves.swell.direction
GetWindSpeed(s) == s.data.wind.speed
GetWindGusts(s) == s.data.wind.gusts
GetWindDirection(s) == s.data.wind.direction
GetAirTemp(s) == s.data.weather.airTemp
GetWaterTemp(s) == s.data.weather.waterTemp

\* data.<field> with optional chaining, by the field's path
FieldOf(s, field) ==
    CASE field = "waves.height.avg" -> GetWaveHeightAvg(s) []
       field = "waves.height.min" -> GetWaveHeightMin(s) []
       field = "waves.height.max" -> GetWaveHeightMax(s) []
       field = "waves.period" -> GetWavePeriod(s) []
       field = "waves.direction" -> GetWaveDirection(s) []
       field = "waves.swell.height" -> GetSwellHeight(s) []
       field = "waves.swell.period" -> GetSwellPeriod(s) []
       field = "waves.swell.direction" -> GetSwellDirection(s) []
       field = "wind.speed" -> GetWindSpeed(s) []
       field = "wind.gusts" -> GetWindGusts(s) []
       field = "wind.direction" -> GetWindDirection(s) []
       field = "weather.airTemp" -> GetAirTemp(s) []
       field = "weather.waterTemp" -> GetWaterTemp(s)

\* the values of one field over the sources, in source order
FieldValues(srcs, field) == [i \in 1..Len(srcs) |-> FieldOf(srcs[i], field)]

\* the values pushed by the extraction loop, one list per field, in source order
Collect(srcs, field) == SelectSeq(FieldValues(srcs, field), Truthy)
CollectDir(srcs, field) == SelectSeq(FieldValues(srcs, field), TruthyDir)

\* (faulty variant) the first source's value instead of the mean
RoundedAverageFirst(arr) == Head(arr)
\* Math.round(average(arr)) for a non-empty arr
RoundedAverage(arr) == MathRound(SumSeq(arr), Len(arr))

\* mostCommon: the item whose count is the first to reach the final maximum
RECURSIVE MostCommonScan(_, _, _, _)
MostCommonScan(arr, cnt, maxCount, item) ==
    IF arr = <<>> THEN item
    ELSE LET x == Head(arr)
             c == (IF x \in DOMAIN cnt THEN cnt[x] ELSE 0) + 1
             cnt2 == [k \in DOMAIN cnt \cup {x} |-> IF k = x THEN c ELSE cnt[k]]
         IN IF c > maxCount
            THEN MostCommonScan(Tail(arr), cnt2, c, x)
            ELSE MostCommonScan(Tail(arr), cnt2, maxCount, item)

\* (faulty variant) counts[item] >= maxCount: the last item to reach the maximum wins
RECURSIVE MostCommonScanGe(_, _, _, _)
MostCommonScanGe(arr, cnt, maxCount, item) ==
    IF arr = <<>> THEN item
    ELSE LET x == Head(arr)
             c == (IF x \in DOMAIN cnt THEN cnt[x] ELSE 0) + 1
             cnt2 == [k \in DOMAIN cnt \cup {x} |-> IF k = x THEN c ELSE cnt[k]]
         IN IF c >= maxCount
            THEN MostCommonScanGe(Tail(arr), cnt2, c, x)
            ELSE MostCommonScanGe(Tail(arr), cnt2, maxCount, item)
mostCommonGe(arr) ==
    IF arr = <<>> THEN NullDir
    ELSE MostCommonScanGe(arr, [k \in {} |-> 0], 0, NullDir)

mostCommon(arr) ==
    IF arr = <<>> THEN NullDir
    ELSE MostCommonScan(arr, [k \in {} |-> 0], 0, NullDir)

\* "beach break multiplier" 1.4, in tenths
BeachBreakTenths == 14
\* maxGap 0.2 m, in tenths of a metre
MaxGapTenths == 2

\* aggregated.waves.height.avg after "Calculate averages", before the cap
NaiveWaveHeightAvg(srcs) ==
    LET arr == Collect(srcs, "waves.height.avg")
    IN IF Len(arr) > 0 THEN RoundedAverage(arr) ELSE Null

\* (faulty variant) Math.floor in place of Math.round
MaxRealisticHeightFloor(swellHeights) ==
    (BeachBreakTenths * SumSeq(swellHeights)) \div (10 * Len(swellHeights))
\* maxRealisticHeight = Math.round(swellH * 1.4 * 10) / 10, swellH the unrounded mean
MaxRealisticHeight(swellHeights) ==
    MathRound(BeachBreakTenths * SumSeq(swellHeights), 10 * Len(swellHeights))

\* (faulty variant) no reality check: the average is left as computed
UncappedWaveHeightAvg(srcs) == NaiveWaveHeightAvg(srcs)
\* the "reality check": the final waves.height.avg
CappedWaveHeightAvg(srcs) ==
    LET naive == NaiveWaveHeightAvg(srcs)
        swellHeights == Collect(srcs, "waves.swell.height")
    IN IF Len(swellHeights) > 0 /\ SumSeq(swellHeights) # 0 /\ naive # Null
          /\ naive > MaxRealisticHeight(swellHeights)
       THEN MaxRealisticHeight(swellHeights)
       ELSE naive

\* (faulty variant) min and max averaged from the sources' own min and max
HeightRangeAveraged(srcs, avg) ==
    LET mins == Collect(srcs, "waves.height.min")
        maxs == Collect(srcs, "waves.height.max")
    IN [min |-> IF Len(mins) > 0 THEN RoundedAverage(mins) ELSE Null,
        max |-> IF Len(maxs) > 0 THEN RoundedAverage(maxs) ELSE Null,
        avg |-> avg]
\* "Tighten min/max range to max 0.2m gap centered on avg"
HeightRange(srcs, avg) ==
    IF avg # Null
    THEN LET lo == MathRound(2 * avg - MaxGapTenths, 2)
             hi == MathRound(2 * avg + MaxGapTenths, 2)
         IN [min |-> IF lo < 0 THEN 0 ELSE lo, max |-> hi, avg |-> avg]
    ELSE [min |-> Null, max |-> Null, avg |-> Null]

\* one scalar field: Math.round(average(values)) when any value was pushed
ScalarField(srcs, field) ==
    LET arr == Collect(srcs, field)
    IN IF Len(arr) > 0 THEN RoundedAverage(arr) ELSE Null

\* "Aggregate swell data"
SwellRecord(srcs) ==
    LET hs == Collect(srcs, "waves.swell.height")
    IN IF Len(hs) > 0
       THEN [height |-> RoundedAverage(hs),
             period |-> ScalarField(srcs, "waves.swell.period"),
             direction |-> mostCommon(CollectDir(srcs, "waves.swell.direction"))]
       ELSE NoSwell

aggregateData(srcs) ==
    [waves |-> [height |-> HeightRange(srcs, CappedWaveHeightAvg(srcs)),
                period |-> ScalarField(srcs, "waves.period"),
                direction |-> mostCommon(CollectDir(srcs, "waves.direction")),
                swell |-> SwellRecord(srcs)],
     wind |-> [speed |-> ScalarField(srcs, "wind.speed"),
               direction |-> mostCommon(CollectDir(srcs, "wind.direction")),
               gusts |-> ScalarField(srcs, "wind.gusts")],
     weather |-> [airTemp |-> ScalarField(srcs, "weather.airTemp"),
                  waterTemp |-> ScalarField(srcs, "weather.waterTemp")]]

----------------------------------------------------------------------------
(* Readings handed to the aggregator *)

\* the { source, data } object a wrapper returns (timestamp and url carry no state)
Reading(source, height, period, direction, swell, wind, airTemp, waterTemp) ==
    [source |-> source,
     data |-> [waves |-> [height |-> height, period |-> period,
                          direction |-> direction, swell |-> swell],
               wind |-> wind,
               weather |-> [airTemp |-> airTemp, waterTemp |-> waterTemp]]]

Height(min, max, avg) == [min |-> min, max |-> max, avg |-> avg]
NoHeight == Height(Null, Null, Null)
Swell(height, period, direction) ==
    [height |-> height, period |-> period, direction |-> direction]
Wind(speed, direction, gusts) == [speed |-> speed, direction |-> direction, gusts |-> gusts]
NoWind == Wind(Null, NullDir, Null)

\* Open-Meteo marine reading for a swell height s (tenths): wave height is the
\* swell height, min/max are 0.9 s and 1.1 s rounded, period and direction are
\* the swell's
OpenMeteoReading(s, period, direction, waterTemp) ==
    Reading("open-meteo",
            Height(MathRound(9 * s, 10), MathRound(11 * s, 10), s),
            period, direction,
            Swell(s, IF Truthy(period) THEN period ELSE Null, direction),
            NoWind, Null, waterTemp)

\* the sample Readings the aggregator is exercised on
ReadingSet ==
    { OpenMeteoReading(10, 11, "W", 22),
      OpenMeteoReading(4, 8, "NW", 21),
      \* a flat sea: swell height 0, period 0, swell from 0 degrees
      OpenMeteoReading(0, 0, "N", 0),
      \* combined sea state 1.2 m over a 1.0 m swell
      Reading("surf-forecast", Height(10, 14, 12), 10, "W",
              Swell(10, 11, NullDir), NoWind, Null, Null),
      \* a bare height of 1.8 m
      Reading("beachcam", Height(15, 21, 18), Null, "NW", NoSwell, NoWind, Null, Null),
      Reading("met-no", NoHeight, Null, NullDir, NoSwell, Wind(10, "N", 15), 20, Null),
      Reading("open-meteo-forecast", NoHeight, Null, NullDir, NoSwell,
              Wind(15, "S", 22), -1, Null),
      \* dead calm at freezing point
      Reading("windfinder", NoHeight, Null, NullDir, NoSwell, Wind(0, "S", 0), 0, Null),
      Reading("windfinder", Height(3, 5, 4), 7, "N", NoSwell, Wind(7, "N", Null), -2, 19),
      \* wind chop overstating a 1.0 m swell as 1.6 m
      Reading("magicseaweed", Height(14, 18, 16), 6, "W",
              Swell(10, 11, "W"), Wind(15, "S", 22), 20, 22) }

\* the longest Reading list given to aggregateData
MaxSources == 4

RECURSIVE SeqsUpTo(_, _)
SeqsUpTo(S, n) ==
    IF n = 0 THEN {<<>>}
    ELSE LET shorter == SeqsUpTo(S, n - 1)
         IN shorter \cup {Append(q, x) : q \in {t \in shorter : Len(t) = n - 1}, x \in S}

\* sources with the elements at positions i and i+1 exchanged
SwapAdjacent(s, i) ==
    [k \in 1..Len(s) |-> IF k = i THEN s[i + 1] ELSE IF k = i + 1 THEN s[i] ELSE s[k]]

----------------------------------------------------------------------------
(* Orchestrator: services/scraper.js fetchSurfData and the wrappers *)

\* the wrappers listed in the scrapers array, in that order
NumAdapters == 7
Adapters == 1..NumAdapters

SourceName(i) ==
    CASE i = 1 -> "open-meteo"
      [] i = 2 -> "met-no"
      [] i = 3 -> "open-meteo-forecast"
      [] i = 4 -> "beachcam"
      [] i = 5 -> "surf-forecast"
      [] i = 6 -> "windfinder"
      [] i = 7 -> "magicseaweed"

\* what scraper i yields when it has data, wrapped as { source, data }
ScrapedReading(i) ==
    CASE i = 1 -> OpenMeteoReading(10, 11, "W", 22)
      [] i = 2 -> Reading(SourceName(2), NoHeight, Null, NullDir, NoSwell,
                          Wind(10, "N", 15), 20, Null)
      [] i = 3 -> Reading(SourceName(3), NoHeight, Null, NullDir, NoSwell,
                          Wind(15, "S", 22), Null, Null)
      [] i = 4 -> Reading(SourceName(4), Height(15, 21, 18), Null, "NW", NoSwell,
                          NoWind, Null, Null)
      [] i = 5 -> Reading(SourceName(5), Height(10, 14, 12), 10, "W", NoSwell,
                          Wind(12, "N", Null), 21, 22)
      [] i = 6 -> Reading(SourceName(6), NoHeight, Null, NullDir, NoSwell,
                          Wind(0, "S", 0), 19, Null)
      [] i = 7 -> Reading(SourceName(7), Height(14, 18, 16), 6, "W", NoSwell,
                          Wind(15, "S", Null), Null, Null)

\* how the awaited scrapeX(spotId) call of a wrapper ends
ScraperOutcomes == {"data", "empty", "threw"}

PendingPromise == [status |-> "pending", value |-> <<>>]
\* a promise value is <<>> for null and <<reading>> for an object

\* (faulty variant) a wrapper without try/catch: the exception rejects its promise
scrapeWrapperNoCatch(i, outcome) ==
    CASE outcome = "data" -> [status |-> "fulfilled", value |-> <<ScrapedReading(i)>>]
      [] outcome = "empty" -> [status |-> "fulfilled", value |-> <<>>]
      [] outcome = "threw" -> [status |-> "rejected", value |-> <<>>]
\* scrapeXWrapper: the settled promise of wrapper i for a scraper outcome;
\* "if (!data) return null" and "catch (error) { ... return null }"
scrapeWrapper(i, outcome) ==
    CASE outcome = "data" -> [status |-> "fulfilled", value |-> <<ScrapedReading(i)>>]
      [] outcome = "empty" -> [status |-> "fulfilled", value |-> <<>>]
      [] outcome = "threw" -> [status |-> "fulfilled", value |-> <<>>]

\* a wrapper that was not invoked
AdapterIdle == [promise |-> PendingPromise, calls |-> 0, outcome |-> "none"]
\* a wrapper invoked by the scrapers array literal, suspended at its await
AdapterInvoked == [promise |-> PendingPromise, calls |-> 1, outcome |-> "none"]

\* (faulty variant) a scraper without data is invoked a second time
SettleAdapterRetry(a, i, outcome) ==
    IF outcome # "data" /\ a.calls < 2
    THEN [a EXCEPT !.calls = @ + 1]
    ELSE [a EXCEPT !.promise = scrapeWrapper(i, outcome), !.outcome = outcome]
\* the awaited scraper call of wrapper i ends and the wrapper returns
SettleAdapter(a, i, outcome) ==
    [a EXCEPT !.promise = scrapeWrapper(i, outcome), !.outcome = outcome]

\* (faulty variant) Promise.race: the first settled promise resumes the caller
PromiseFirstSettled(ad) == \E i \in Adapters : ad[i].promise.status # "pending"
\* Promise.allSettled(scrapers) is resolved
PromiseAllSettled(ad) == \A i \in Adapters : ad[i].promise.status # "pending"

\* results.filter(...) counted
IsSuccessful(r) == r.status = "fulfilled" /\ r.value # <<>>
IsFailure(r) == r.status = "rejected"
IsNullResult(r) == r.status = "fulfilled" /\ r.value = <<>>
Failures(ad) == {i \in Adapters : IsFailure(ad[i].promise)}
NullResults(ad) == {i \in Adapters : IsNullResult(ad[i].promise)}

\* results.filter(fulfilled and not null).map(r => r.value), in array order
RECURSIVE SuccessfulDataFrom(_, _)
SuccessfulDataFrom(ad, i) ==
    IF i > NumAdapters THEN <<>>
    ELSE (IF IsSuccessful(ad[i].promise) THEN ad[i].promise.value ELSE <<>>)
         \o SuccessfulDataFrom(ad, i + 1)
SuccessfulData(ad) == SuccessfulDataFrom(ad, 1)

NoFetchResult == [kind |-> "none", data |-> <<>>]
\* (faulty variant) the empty list is returned instead of throwing
FetchOutcomeNoThrow(successfulData) == [kind |-> "returned", data |-> successfulData]
\* "if (successfulData.length === 0) throw new Error('All data sources failed')"
FetchOutcome(successfulData) ==
    IF Len(successfulData) = 0
    THEN [kind |-> "threw", data |-> <<>>]
    ELSE [kind |-> "returned", data |-> successfulData]

----------------------------------------------------------------------------
(* GET /api/conditions/:spotId *)

NoResponse == [status |-> 0, fromCache |-> FALSE, body |-> <<>>]

\* the response object of the handler; the score is kept as the arguments of
\* the calculateSurfScore call that yields it
ResponseBody(rawData) ==
    [conditions |-> aggregateData(rawData),
     score |-> [conditions |-> aggregateData(rawData), sourceCount |-> Len(rawData)],
     sources |-> [k \in 1..Len(rawData) |-> rawData[k].source]]

\* an entry left in the cache by an earlier request
PriorEntry == ResponseBody(<<ScrapedReading(1), ScrapedReading(2)>>)

AggregatorIdle ==
    /\ aggPc = "ready"
    /\ sources = <<>>
    /\ aggregated = EmptyAggregated

InitFetch ==
    /\ routePc = "idle"
    /\ refresh = FALSE
    /\ adapter = [i \in Adapters |-> AdapterIdle]
    /\ fetchResult = NoFetchResult
    /\ counts = [failed |-> 0, empty |-> 0, succeeded |-> 0]
    /\ cache \in {<<>>, <<PriorEntry>>}
    /\ wroteCache = FALSE
    /\ response = NoResponse
    /\ AggregatorIdle
    /\ PureIdle
    /\ ExtIdle

\* a request for an unknown spot: 404 before anything else
ReceiveInvalidRequest ==
    /\ routePc = "idle"
    /\ routePc' = "responded"
    /\ response' = [status |-> 404, fromCache |-> FALSE, body |-> <<>>]
    /\ UNCHANGED <<refresh, adapter, fetchResult, counts, cache, wroteCache, aggVars, pureVars, extVars>>

\* a request answered from the cache: no refresh and an entry is present
ReceiveRequestCacheHit ==
    /\ routePc = "idle"
    /\ refresh' = FALSE
    /\ cache # <<>>
    /\ routePc' = "responded"
    /\ response' = [status |-> 200, fromCache |-> TRUE, body |-> cache]
    /\ UNCHANGED <<adapter, fetchResult, counts, cache, wroteCache, aggVars, pureVars, extVars>>

\* a request that fetches: fetchSurfData invokes every wrapper, each runs to
\* its await, and the handler is suspended on Promise.allSettled
ReceiveRequestFetch(r) ==
    /\ routePc = "idle"
    /\ refresh' = r
    /\ r \/ cache = <<>>
    /\ routePc' = "awaiting"
    /\ adapter' = [i \in Adapters |-> AdapterInvoked]
    /\ UNCHANGED <<fetchResult, counts, cache, wroteCache, response, aggVars, pureVars, extVars>>

\* the scraper awaited by wrapper i ends, with data, without, or by throwing
ScraperSettles(i, outcome) ==
    /\ routePc = "awaiting"
    /\ adapter[i].promise.status = "pending"
    /\ adapter' = [adapter EXCEPT ![i] = SettleAdapter(adapter[i], i, outcome)]
    /\ UNCHANGED <<routePc, refresh, fetchResult, counts, cache, wroteCache, response, aggVars, pureVars, extVars>>

\* fetchSurfData resumes after Promise.allSettled: filters, counts, logs,
\* then returns the successful data or throws
FetchCompletes ==
    /\ routePc = "awaiting"
    /\ PromiseAllSettled(adapter)
    /\ counts' = [failed |-> Cardinality(Failures(adapter)),
                  empty |-> Cardinality(NullResults(adapter)),
                  succeeded |-> Len(SuccessfulData(adapter))]
    /\ fetchResult' = FetchOutcome(SuccessfulData(adapter))
    /\ routePc' = "fetched"
    /\ UNCHANGED <<refresh, adapter, cache, wroteCache, response, aggVars, pureVars, extVars>>

\* the handler resumes after "await fetchSurfData": on a throw the catch block
\* passes the error on (500, nothing cached); otherwise it aggregates, scores,
\* caches the response for 10 minutes and sends it
RouteContinues ==
    /\ routePc = "fetched"
    /\ routePc' = "responded"
    /\ IF fetchResult.kind = "threw"
       THEN /\ response' = [status |-> 500, fromCache |-> FALSE, body |-> <<>>]
            /\ UNCHANGED <<cache, wroteCache>>
       ELSE /\ response' = [status |-> 200, fromCache |-> FALSE,
                            body |-> <<ResponseBody(fetchResult.data)>>]
            /\ cache' = <<ResponseBody(fetchResult.data)>>
            /\ wroteCache' = TRUE
    /\ UNCHANGED <<refresh, adapter, fetchResult, counts, aggVars, pureVars, extVars>>

\* the entry's TTL runs out and node-cache drops it
CacheExpires ==
    /\ cache # <<>>
    /\ cache' = <<>>
    /\ UNCHANGED <<routePc, refresh, adapter, fetchResult, counts, wroteCache, response, aggVars, pureVars, extVars>>

NextFetch ==
    \/ ReceiveInvalidRequest
    \/ ReceiveRequestCacheHit
    \/ \E r \in BOOLEAN : ReceiveRequestFetch(r)
    \/ \E i \in Adapters, outcome \in ScraperOutcomes : ScraperSettles(i, outcome)
    \/ FetchCompletes
    \/ RouteContinues
    \/ CacheExpires

SpecFetch == InitFetch /\ [][NextFetch]_vars

----------------------------------------------------------------------------
(* The aggregator as a called function *)

RouteIdle ==
    /\ routePc = "idle"
    /\ refresh = FALSE
    /\ adapter = [i \in Adapters |-> AdapterIdle]
    /\ fetchResult = NoFetchResult
    /\ counts = [failed |-> 0, empty |-> 0, succeeded |-> 0]
    /\ cache = <<>>
    /\ wroteCache = FALSE
    /\ response = NoResponse

InitAgg ==
    /\ RouteIdle
    /\ PureIdle
    /\ ExtIdle
    /\ aggPc = "ready"
    /\ sources \in SeqsUpTo(ReadingSet, MaxSources)
    /\ aggregated = EmptyAggregated

\* aggregateData(sources) is called
Aggregate ==
    /\ aggPc = "ready"
    /\ aggPc' = "done"
    /\ aggregated' = aggregateData(sources)
    /\ UNCHANGED <<sources, routeVars, pureVars, extVars>>

\* aggregateData is called again on the same Readings, two neighbours exchanged
AggregateReordered ==
    /\ aggPc = "done"
    /\ \E i \in 1..(Len(sources) - 1) :
          /\ sources[i] # sources[i + 1]
          /\ sources' = SwapAdjacent(sources, i)
    /\ aggregated' = aggregateData(sources')
    /\ UNCHANGED <<aggPc, routeVars, pureVars, extVars>>

NextAgg == Aggregate \/ AggregateReordered

SpecAgg == InitAgg /\ [][NextAgg]_vars

----------------------------------------------------------------------------
(* Properties of the orchestrator and the route *)

\* the adapters whose scraper ended a given way
EndedWith(outcome) == {i \in Adapters : adapter[i].outcome = outcome}
\* fetchSurfData has returned or thrown
FetchCompleted == fetchResult.kind # "none"

\* C1: fetchSurfData completes only after every registered adapter has
\* settled by its own outcome, whichever adapters failed, threw or were empty
C1_CompletesAfterAllSettled ==
    FetchCompleted =>
        \A i \in Adapters :
            /\ adapter[i].promise.status # "pending"
            /\ adapter[i].outcome \in ScraperOutcomes

\* C1 witness: a completed call in which the first adapter threw, the second
\* was empty, and later ones still delivered data
C1_Witness ==
    /\ FetchCompleted
    /\ adapter[1].outcome = "threw"
    /\ adapter[2].outcome = "empty"
    /\ adapter[3].outcome = "data"
    /\ adapter[NumAdapters].outcome = "data"

\* the Readings of the adapters that produced data, in registration order
RECURSIVE ReadingsOfFrom(_, _)
ReadingsOfFrom(S, i) ==
    IF i > NumAdapters THEN <<>>
    ELSE (IF i \in S THEN <<ScrapedReading(i)>> ELSE <<>>) \o ReadingsOfFrom(S, i + 1)

\* C2: once the handler has answered a request that fetched: with zero
\* adapters producing data fetchSurfData threw, the answer is an error with no
\* Observation and no Score, and the request stored no cache entry; with at
\* least one it returned exactly the Readings of the adapters that produced
\* data, and the answer carries their Observation
C2_AllFailedIsHardFailure ==
    (routePc = "responded" /\ FetchCompleted) =>
        IF EndedWith("data") = {}
        THEN /\ fetchResult.kind = "threw"
             /\ response.status = 500
             /\ response.body = <<>>
             /\ ~wroteCache
             /\ cache \in {<<>>, <<PriorEntry>>}
        ELSE /\ fetchResult.kind = "returned"
             /\ fetchResult.data = ReadingsOfFrom(EndedWith("data"), 1)
             /\ response.status = 200
             /\ Len(response.body) = 1
             /\ response.body[1].conditions = aggregateData(ReadingsOfFrom(EndedWith("data"), 1))
             /\ response.body[1].score.sourceCount = Cardinality(EndedWith("data"))

\* C2 witness: a refresh with an older entry cached, every adapter without
\* data, answered with the error while the older entry is still cached
C2_Witness ==
    /\ routePc = "responded"
    /\ FetchCompleted
    /\ refresh
    /\ EndedWith("data") = {}
    /\ EndedWith("threw") # {}
    /\ EndedWith("empty") # {}
    /\ response.status = 500
    /\ cache = <<PriorEntry>>

\* C3 as stated: the call yields the counts of failed, empty and succeeded
\* adapters, an adapter ending with an exception counted as failed, not as
\* empty, and the counts sum to the number of registered adapters
C3_ThrowCountedAsFailed ==
    FetchCompleted =>
        /\ counts.failed = Cardinality(EndedWith("threw"))
        /\ counts.empty = Cardinality(EndedWith("empty"))
        /\ counts.succeeded = Cardinality(EndedWith("data"))
        /\ counts.failed + counts.empty + counts.succeeded = NumAdapters

\* C3 amended: the call computes (and logs) the three counts and returns only
\* the Readings; a scraper's exception is caught by its wrapper, so the adapter
\* is counted as returned-empty and the failed count is 0; succeeded is the
\* length of the returned list; the three counts sum to the number of adapters
C3_ThrowCountedAsEmpty ==
    FetchCompleted =>
        /\ counts.failed = 0
        /\ counts.empty = Cardinality(EndedWith("threw") \cup EndedWith("empty"))
        /\ counts.succeeded = Cardinality(EndedWith("data"))
        /\ counts.succeeded = Len(SuccessfulData(adapter))
        /\ fetchResult.kind = "returned" => Len(fetchResult.data) = counts.succeeded
        /\ counts.failed + counts.empty + counts.succeeded = NumAdapters

\* C3 witness: two scrapers threw, one was empty, four had data
C3_Witness ==
    /\ FetchCompleted
    /\ Cardinality(EndedWith("threw")) = 2
    /\ Cardinality(EndedWith("empty")) = 1
    /\ counts = [failed |-> 0, empty |-> 3, succeeded |-> 4]

\* C4: in one fetchSurfData call every registered adapter is invoked exactly
\* once, from the moment the call is suspended until after it has completed,
\* whatever the adapters' outcomes; without a call none is invoked
C4_OneAttemptPerAdapter ==
    /\ (routePc \in {"awaiting", "fetched"} \/ FetchCompleted) =>
          \A i \in Adapters : adapter[i].calls = 1
    /\ (routePc = "idle" \/ (routePc = "responded" /\ ~FetchCompleted)) =>
          \A i \in Adapters : adapter[i].calls = 0

\* C4 witness: the call has completed although no adapter had data, three of
\* them by throwing
C4_Witness ==
    /\ fetchResult.kind = "threw"
    /\ Cardinality(EndedWith("threw")) = 3
    /\ Cardinality(EndedWith("empty")) = 4
    /\ \A i \in Adapters : adapter[i].calls = 1

----------------------------------------------------------------------------
(* Properties of the aggregator *)

Min2(a, b) == IF a < b THEN a ELSE b
Max2(a, b) == IF a > b THEN a ELSE b

\* how often x occurs in arr
Occurrences(arr, x) == Cardinality({i \in 1..Len(arr) : arr[i] = x})
\* the highest frequency in a non-empty arr
TopFrequency(arr) ==
    CHOOSE m \in 1..Len(arr) :
        /\ \E i \in 1..Len(arr) : Occurrences(arr, arr[i]) = m
        /\ \A i \in 1..Len(arr) : Occurrences(arr, arr[i]) <= m
\* the values of arr that have the highest frequency
Modes(arr) == {arr[i] : i \in {j \in 1..Len(arr) : Occurrences(arr, arr[j]) = TopFrequency(arr)}}
\* the position in arr of the k-th occurrence of x
PositionOfKth(arr, x, k) ==
    CHOOSE i \in 1..Len(arr) :
        arr[i] = x /\ Cardinality({j \in 1..i : arr[j] = x}) = k
\* the mode that appears first in arr
ModeFirstInOrder(arr) ==
    IF arr = <<>> THEN NullDir
    ELSE arr[CHOOSE i \in 1..Len(arr) :
                /\ arr[i] \in Modes(arr)
                /\ \A j \in 1..(i - 1) : arr[j] \notin Modes(arr)]
\* the mode whose running count is the first to reach the highest frequency
ModeFirstToReachTop(arr) ==
    IF arr = <<>> THEN NullDir
    ELSE CHOOSE x \in Modes(arr) :
            \A y \in Modes(arr) :
                PositionOfKth(arr, x, TopFrequency(arr)) <= PositionOfKth(arr, y, TopFrequency(arr))

\* the values of a field over the Readings where it is not null (0 counts as a value)
Supplied(srcs, field) == SelectSeq(FieldValues(srcs, field), LAMBDA x : x # Null)
SuppliedDir(srcs, field) == SelectSeq(FieldValues(srcs, field), LAMBDA d : d # NullDir)
\* the rounded arithmetic mean of the supplied values, null when there is none
MeanOfSupplied(srcs, field) ==
    LET arr == Supplied(srcs, field)
    IN IF arr = <<>> THEN Null ELSE MathRound(SumSeq(arr), Len(arr))

\* every numeric field of an Observation
NumericFields(o) ==
    <<o.waves.height, o.waves.period, o.waves.swell.height, o.waves.swell.period,
      o.wind.speed, o.wind.gusts, o.weather.airTemp, o.weather.waterTemp>>

\* a step from one aggregateData result to the result for a reordered list
ReorderedCall == aggPc = "done" /\ aggPc' = "done"

C6_MeanOverSupplied ==
    aggPc = "done" =>
        /\ NaiveWaveHeightAvg(sources) = MeanOfSupplied(sources, "waves.height.avg")
        /\ aggregated.waves.period = MeanOfSupplied(sources, "waves.period")
        /\ aggregated.wind.speed = MeanOfSupplied(sources, "wind.speed")
        /\ aggregated.wind.gusts = MeanOfSupplied(sources, "wind.gusts")
        /\ aggregated.weather.airTemp = MeanOfSupplied(sources, "weather.airTemp")
        /\ aggregated.weather.waterTemp = MeanOfSupplied(sources, "weather.waterTemp")

\* C7 as stated: each direction is the most frequent supplied value, the one
\* appearing first in Reading order on a tie, null if none was supplied (the
\* swell direction is looked at where the Observation has a swell sub-record)
C7_ModeFirstInOrder ==
    aggPc = "done" =>
        /\ aggregated.waves.direction = ModeFirstInOrder(SuppliedDir(sources, "waves.direction"))
        /\ aggregated.wind.direction = ModeFirstInOrder(SuppliedDir(sources, "wind.direction"))
        /\ aggregated.waves.swell # NoSwell =>
              aggregated.waves.swell.direction =
                  ModeFirstInOrder(SuppliedDir(sources, "waves.swell.direction"))

\* C7 amended: wave and wind direction, and swell direction when some Reading
\* has a non-zero swell height, are a most frequent supplied value: on a tie
\* the one whose running count first reaches the highest frequency; null if no
\* Reading supplied a direction, and the swell direction is null too when no
\* Reading has a non-zero swell height
C7_ModeFirstToReachTop ==
    aggPc = "done" =>
        /\ aggregated.waves.direction = ModeFirstToReachTop(SuppliedDir(sources, "waves.direction"))
        /\ aggregated.wind.direction = ModeFirstToReachTop(SuppliedDir(sources, "wind.direction"))
        /\ aggregated.waves.swell.direction =
              IF \E i \in 1..Len(sources) : Truthy(GetSwellHeight(sources[i]))
              THEN ModeFirstToReachTop(SuppliedDir(sources, "waves.swell.direction"))
              ELSE NullDir

\* C7 witness: wind directions N,S,S,N are tied; S reaches two first and wins
C7_Witness ==
    /\ aggPc = "done"
    /\ SuppliedDir(sources, "wind.direction") = <<"N", "S", "S", "N">>
    /\ aggregated.wind.direction = "S"

\* the supplied swell heights (0 counted) and the non-zero ones the code uses
SwellSum(srcs) == SumSeq(Collect(srcs, "waves.swell.height"))
SwellCount(srcs) == Len(Collect(srcs, "waves.swell.height"))

IdenticalReadings == Len(sources) >= 1 /\ \A i \in 1..Len(sources) : sources[i] = sources[1]

\* no numeric field of the Reading is 0
NoZeroField(r) ==
    \A x \in {r.waves.height.min, r.waves.height.max, r.waves.height.avg, r.waves.period,
              r.waves.swell.height, r.waves.swell.period, r.wind.speed, r.wind.gusts,
              r.weather.airTemp, r.weather.waterTemp} : x # 0

\* C10 as stated: N identical Readings aggregate to that Reading's own values
\* in every conditions field (taken for Readings in which no value is 0)
C10_IdenticalReadingsExact ==
    (aggPc = "done" /\ IdenticalReadings /\ NoZeroField(sources[1].data)) =>
        aggregated = sources[1].data

\* C10 amended: N identical Readings aggregate to the same Observation for
\* every N.  In it period, wind speed, gusts, temperatures, directions and the
\* swell's period and direction equal the Reading's value, except that a value
\* of 0 comes out null; wave height avg is the Reading's avg capped at 1.4 x
\* its swell height (rounded to one decimal); min and max are avg -/+ 0.1, not
\* the Reading's min and max; the swell sub-record is present only for a
\* non-zero swell height
C10_IdenticalReadingsUpToRules ==
    (aggPc = "done" /\ IdenticalReadings) =>
        LET r == sources[1].data
            Val(x) == IF x = 0 THEN Null ELSE x
            avg == IF Truthy(r.waves.height.avg) /\ Truthy(r.waves.swell.height)
                   THEN Min2(r.waves.height.avg,
                             MathRound(BeachBreakTenths * r.waves.swell.height, 10))
                   ELSE Val(r.waves.height.avg)
        IN /\ aggregated.waves.height.avg = avg
           /\ aggregated.waves.height.min = IF avg = Null THEN Null ELSE Max2(0, avg - 1)
           /\ aggregated.waves.height.max = IF avg = Null THEN Null ELSE avg + 1
           /\ aggregated.waves.period = Val(r.waves.period)
           /\ aggregated.waves.direction = r.waves.direction
           /\ aggregated.waves.swell =
                 IF Truthy(r.waves.swell.height)
                 THEN Swell(r.waves.swell.height, Val(r.waves.swell.period),
                            r.waves.swell.direction)
                 ELSE NoSwell
           /\ aggregated.wind = Wind(Val(r.wind.speed), r.wind.direction, Val(r.wind.gusts))
           /\ aggregated.weather.airTemp = Val(r.weather.airTemp)
           /\ aggregated.weather.waterTemp = Val(r.weather.waterTemp)

\* C10 witness: three copies of a Reading whose 1.6 m average is capped by its
\* 1.0 m swell
C10_Witness ==
    /\ aggPc = "done"
    /\ IdenticalReadings
    /\ Len(sources) = 3
    /\ sources[1].data.waves.height.avg = 16
    /\ sources[1].data.waves.swell.height = 10
    /\ aggregated.waves.height.avg = 14

----------------------------------------------------------------------------
(* Hourly aggregator: services/scraper.js aggregateHourlyData *)

\* a local time "YYYY-MM-DDTHH:MM" as <<day, hour, minute>>, days counted from
\* today; every adapter writes the hour with two digits
Time(day, hour, minute) == <<day, hour, minute>>
\* an entry without a time
NoTime == <<>>
\* if (!entry.time) continue
HasTime(e) == e.time # NoTime
\* entry.time.substring(0, 13) + ':00': the first 13 characters keep the date
\* and the hour, the minutes are replaced by 00
HourKey(time) == <<time[1], time[2], 0>>
\* a.time.localeCompare(b.time) < 0 on two hour keys
KeyBefore(a, b) == a[1] < b[1] \/ (a[1] = b[1] /\ a[2] < b[2])

\* one element of data.hourly: a time and the condition fields it carries
HourlyEntry(time, data) == [time |-> time, data |-> data]
\* a { source, data } object whose data carries an hourly array
HourlySource(source, hourly) ==
    [source |-> source, data |-> [hasHourly |-> TRUE, hourly |-> hourly]]
\* a { source, data } object without data.hourly
NoHourlySource(source) ==
    [source |-> source, data |-> [hasHourly |-> FALSE, hourly |-> <<>>]]

\* the entries the two loops reach, in loop order: sources without an hourly
\* array and entries without a time are skipped
RECURSIVE HourlyEntries(_)
HourlyEntries(srcs) ==
    IF srcs = <<>> THEN <<>>
    ELSE (IF Head(srcs).data.hasHourly
          THEN SelectSeq(Head(srcs).data.hourly, HasTime)
          ELSE <<>>)
         \o HourlyEntries(Tail(srcs))

\* the keys of hourMap in the order they were created
RECURSIVE HourMapKeys(_, _)
HourMapKeys(entries, keys) ==
    IF entries = <<>> THEN keys
    ELSE LET k == HourKey(Head(entries).time)
         IN HourMapKeys(Tail(entries),
                        IF \E i \in 1..Len(keys) : keys[i] = k THEN keys
                        ELSE Append(keys, k))

\* k put into an ascending list before the first key that sorts after it
RECURSIVE InsertByTime(_, _)
InsertByTime(sorted, k) ==
    IF sorted = <<>> THEN <<k>>
    ELSE IF KeyBefore(k, Head(sorted)) THEN <<k>> \o sorted
    ELSE <<Head(sorted)>> \o InsertByTime(Tail(sorted), k)
\* (faulty variant) the sort by time left out: the order of creation
SortByTimeOmitted(keys) == keys
\* Object.values(hourMap).sort((a, b) => a.time.localeCompare(b.time))
RECURSIVE SortByTime(_)
SortByTime(keys) ==
    IF keys = <<>> THEN <<>>
    ELSE InsertByTime(SortByTime(Tail(keys)), Head(keys))

\* the entries whose values were pushed into hourMap[key]
HourBucket(entries, key) ==
    SelectSeq(entries, LAMBDA e : HourKey(e.time) = key)

\* the conditions-like object built from one hourMap value
HourlyConditions(key, h) ==
    [time |-> key,
     waves |-> [height |-> [avg |-> ScalarField(h, "waves.height.avg")],
                period |-> ScalarField(h, "waves.period"),
                direction |-> mostCommon(CollectDir(h, "waves.direction")),
                swell |-> SwellRecord(h)],
     wind |-> [speed |-> ScalarField(h, "wind.speed"),
               direction |-> mostCommon(CollectDir(h, "wind.direction")),
               gusts |-> ScalarField(h, "wind.gusts")],
     weather |-> [airTemp |-> ScalarField(h, "weather.airTemp")]]

aggregateHourlyData(srcs) ==
    LET entries == HourlyEntries(srcs)
        keys == SortByTime(HourMapKeys(entries, <<>>))
    IN [i \in 1..Len(keys) |-> HourlyConditions(keys[i], HourBucket(entries, keys[i]))]

----------------------------------------------------------------------------
(* Readings with hourly forecasts handed to the hourly aggregator *)

\* the hourly entry that carries the fields of a Reading's current conditions
EntryOf(reading, time) == HourlyEntry(time, reading.data)
\* the condition fields of an hourly entry with only wind in it
WindOnly(speed, direction, gusts) ==
    Reading("wind", NoHeight, Null, NullDir, NoSwell, Wind(speed, direction, gusts),
            Null, Null).data
\* the condition fields of an hourly entry with only a swell in it
SwellOnly(s, period, direction) == OpenMeteoReading(s, period, direction, Null).data

\* the Readings whose current conditions are repeated as one entry at 09:00
SameHourReadings ==
    { OpenMeteoReading(10, 11, "W", 22),
      Reading("surf-forecast", Height(10, 14, 12), 10, "W",
              Swell(10, 11, NullDir), NoWind, Null, Null),
      Reading("beachcam", Height(15, 21, 18), Null, "NW", NoSwell, NoWind, Null, Null),
      Reading("met-no", NoHeight, Null, NullDir, NoSwell, Wind(10, "N", 15), 20, Null),
      Reading("windfinder", NoHeight, Null, NullDir, NoSwell, Wind(0, "S", 0), 0, Null) }

\* the sample sources the hourly aggregator is exercised on
HourlySourceSet ==
    { HourlySource(r.source, <<EntryOf(r, Time(0, 9, 0))>>) : r \in SameHourReadings }
    \cup
    { \* a marine forecast of three hours over two days
      HourlySource("open-meteo",
                   << HourlyEntry(Time(0, 9, 0), SwellOnly(10, 11, "W")),
                      HourlyEntry(Time(0, 10, 0), SwellOnly(12, 11, "W")),
                      HourlyEntry(Time(1, 9, 0), SwellOnly(4, 8, "NW")) >>),
      \* a wind forecast given on the half hour
      HourlySource("met-no",
                   << HourlyEntry(Time(0, 9, 30), WindOnly(12, "N", 20)),
                      HourlyEntry(Time(0, 10, 30), WindOnly(20, "NW", 45)) >>),
      \* scraped table rows: afternoon before morning, one row without a time
      HourlySource("windfinder",
                   << HourlyEntry(Time(0, 14, 0), WindOnly(25, "W", Null)),
                      HourlyEntry(NoTime, WindOnly(30, "W", Null)),
                      HourlyEntry(Time(0, 9, 0), WindOnly(8, "E", Null)) >>),
      HourlySource("magicseaweed", <<>>),
      NoHourlySource("beachcam") }

\* the longest source list given to aggregateHourlyData
MaxHourlySources == 3

InitHourly ==
    /\ RouteIdle
    /\ AggregatorIdle
    /\ ScorerIdle
    /\ TrendIdle
    /\ ExtIdle
    /\ hourPc = "ready"
    /\ hourSources \in SeqsUpTo(HourlySourceSet, MaxHourlySources)
    /\ timeline = <<>>

\* aggregateHourlyData(hourSources) is called
AggregateHourly ==
    /\ hourPc = "ready"
    /\ hourPc' = "done"
    /\ timeline' = aggregateHourlyData(hourSources)
    /\ UNCHANGED <<hourSources, routeVars, aggVars, scoreVars, trendVars, extVars>>

NextHourly == AggregateHourly

SpecHourly == InitHourly /\ [][NextHourly]_vars

----------------------------------------------------------------------------
(* Properties of the hourly aggregator *)

\* the entries with a time found in the hourly arrays of the sources
TimedEntries(srcs) ==
    UNION { { srcs[i].data.hourly[j] :
                j \in { n \in 1..Len(srcs[i].data.hourly) :
                          srcs[i].data.hourly[n].time # NoTime } } :
            i \in { n \in 1..Len(srcs) : srcs[n].data.hasHourly } }
\* the distinct hour-truncated keys of those entries
InputHourKeys(srcs) == { HourKey(e.time) : e \in TimedEntries(srcs) }
\* the positions of the timeline entries that stand for an hour key
TimelineEntriesFor(key) == { i \in 1..Len(timeline) : timeline[i].time = key }

\* C11: the timeline has strictly increasing timestamps and exactly one entry
\* per distinct hour-truncated key: entries of the same hour are merged,
\* entries of different hours never are, and every hourly entry with a time
\* contributes to exactly one timeline entry
C11_OneEntryPerHourAscending ==
    hourPc = "done" =>
        /\ \A i \in 1..(Len(timeline) - 1) :
              KeyBefore(timeline[i].time, timeline[i + 1].time)
        /\ { timeline[i].time : i \in 1..Len(timeline) } = InputHourKeys(hourSources)
        /\ Len(timeline) = Cardinality(InputHourKeys(hourSources))
        /\ \A e \in TimedEntries(hourSources) :
              Cardinality(TimelineEntriesFor(HourKey(e.time))) = 1

\* scraped rows out of order, a half-hour wind forecast and a marine
\* forecast: four hours, the 09:00 entry merged from all three sources
C11_Witness ==
    /\ hourPc = "done"
    /\ Len(hourSources) = 3
    /\ hourSources[1].source = "windfinder"
    /\ Len(hourSources[1].data.hourly) = 3
    /\ hourSources[2].source = "met-no"
    /\ Len(hourSources[2].data.hourly) = 2
    /\ Len(timeline) = 4
    /\ timeline[1].time = Time(0, 9, 0)
    /\ timeline[1].wind.speed = 10
    /\ timeline[1].waves.swell.height = 10
    /\ timeline[3].time = Time(0, 14, 0)
    /\ timeline[4].time = Time(1, 9, 0)

\* every source carries exactly one hourly entry, all in the same hour
SingleSameHour(srcs) ==
    /\ srcs # <<>>
    /\ \A i \in 1..Len(srcs) :
          /\ srcs[i].data.hasHourly
          /\ Len(srcs[i].data.hourly) = 1
          /\ srcs[i].data.hourly[1].time # NoTime
          /\ HourKey(srcs[i].data.hourly[1].time) = HourKey(srcs[1].data.hourly[1].time)
\* the Readings whose current conditions are the fields of those entries
ReadingsOfHourly(srcs) ==
    [i \in 1..Len(srcs) |-> [source |-> srcs[i].source, data |-> srcs[i].data.hourly[1].data]]

\* C12: for Readings whose single hourly entry, all in the same hour, carries
\* the fields of the Reading's current conditions, the timeline entry of that
\* hour equals aggregateData's Observation field for field: wave height avg
\* (with the swell plausibility cap), period, directions, swell, wind
C12_HourlySameRules ==
    (hourPc = "done" /\ SingleSameHour(hourSources)) =>
        LET o == aggregateData(ReadingsOfHourly(hourSources))
        IN /\ Len(timeline) = 1
           /\ timeline[1].waves.height.avg = o.waves.height.avg
           /\ timeline[1].waves.period = o.waves.period
           /\ timeline[1].waves.direction = o.waves.direction
           /\ timeline[1].waves.swell = o.waves.swell
           /\ timeline[1].wind = o.wind

----------------------------------------------------------------------------
(* Scorer: services/scoring.js calculateSurfScore and its factor curves *)

\* SPOTS[spotId].optimal: heights in tenths of a metre, periods in seconds
SPOTS ==
    [herzliya_marina |->
        [waveHeight |-> [min |-> 8, ideal |-> 15, max |-> 25],
         wavePeriod |-> [min |-> 8, ideal |-> 12, max |-> 16],
         windDirection |-> {"E", "NE", "SE"},
         waveDirection |-> {"W", "NW", "SW"}],
     netanya_kontiki |->
        [waveHeight |-> [min |-> 6, ideal |-> 12, max |-> 20],
         wavePeriod |-> [min |-> 7, ideal |-> 11, max |-> 15],
         windDirection |-> {"E", "SE"},
         waveDirection |-> {"W", "NW"}]]
\* isValidSpot / getSpotById(spotId) !== undefined
isValidSpot(spotId) == spotId \in DOMAIN SPOTS

\* WEIGHTS, in hundredths
WEIGHTS ==
    [waveHeight |-> 15, wavePeriod |-> 30, swellQuality |-> 15, windSpeed |-> 15,
     windDirection |-> 15, waveDirection |-> 5, dataConfidence |-> 5]

\* a factor score that is not rounded inside its curve: the fraction n / d, d > 0
Rat(n, d) == [n |-> n, d |-> d]
Whole(k) == Rat(k, 1)
\* Math.round(score) of such a fraction
RoundRat(r) == MathRound(r.n, r.d)

\* x || 0
OrZero(x) == IF Truthy(x) THEN x ELSE 0
\* Math.max(0, Math.min(100, x))
Clamp(x) == IF x < 0 THEN 0 ELSE IF x > 100 THEN 100 ELSE x

\* Math.round(50 * Math.pow(height / min, 1.5)): the k with
\* k - 1/2 <= 50 (height/min)^(3/2) < k + 1/2, both sides squared
TooSmallScore(height, min) ==
    CHOOSE k \in 0..50 :
        /\ (2 * k - 1) * (2 * k - 1) * min * min * min <= 10000 * height * height * height
        /\ (2 * k + 1) * (2 * k + 1) * min * min * min > 10000 * height * height * height

\* scoreWaveHeight(height, optimal), height in tenths (0.1 m is 1)
scoreWaveHeight(height, optimal) ==
    LET min == optimal.waveHeight.min
        ideal == optimal.waveHeight.ideal
        max == optimal.waveHeight.max
    IN IF height <= 1 THEN Whole(0)
       ELSE IF height < min THEN Whole(TooSmallScore(height, min))
       ELSE IF height <= ideal
            THEN (IF ideal - min > 0
                  THEN Rat(50 * (ideal - min) + 50 * (height - min), ideal - min)
                  ELSE Whole(100))
       ELSE IF height <= max
            THEN (IF max - ideal > 0
                  THEN Rat(100 * (max - ideal) - 30 * (height - ideal), max - ideal)
                  ELSE Whole(100))
       ELSE LET r == MathRound(70 * max - 50 * (height - max), max)
            IN Whole(IF r < 0 THEN 0 ELSE r)

\* Math.round(40 * Math.pow(period / min, 1.3)) for the whole periods below
\* min; the 13/10 power is tabulated for the two profiles' min (8 s and 7 s)
TooShortScore(period, min) ==
    CASE min = 8 -> <<3, 7, 11, 16, 22, 28, 34>>[period]
      [] min = 7 -> <<3, 8, 13, 19, 26, 33>>[period]

\* (faulty variant) the rise to ideal measured over the whole min..max band
scoreWavePeriodWholeBand(period, optimal) ==
    LET min == optimal.wavePeriod.min
        ideal == optimal.wavePeriod.ideal
        max == optimal.wavePeriod.max
    IN IF period <= 0 THEN Whole(0)
       ELSE IF period < min THEN Whole(TooShortScore(period, min))
       ELSE IF period <= ideal
            THEN Rat(40 * (max - min) + 60 * (period - min), max - min)
       ELSE IF period <= max
            THEN Rat(100 * (max - ideal) - 10 * (period - ideal), max - ideal)
       ELSE Whole(85)
\* scoreWavePeriod(period, optimal)
scoreWavePeriod(period, optimal) ==
    LET min == optimal.wavePeriod.min
        ideal == optimal.wavePeriod.ideal
        max == optimal.wavePeriod.max
    IN IF period <= 0 THEN Whole(0)
       ELSE IF period < min THEN Whole(TooShortScore(period, min))
       ELSE IF period <= ideal
            THEN (IF ideal - min > 0
                  THEN Rat(40 * (ideal - min) + 60 * (period - min), ideal - min)
                  ELSE Whole(100))
       ELSE IF period <= max
            THEN (IF max - ideal > 0
                  THEN Rat(100 * (max - ideal) - 10 * (period - ideal), max - ideal)
                  ELSE Whole(100))
       ELSE Whole(85)

\* scoreSwellQuality(swell, wavePeriod, optimal), swell height in tenths
scoreSwellQuality(swell, wavePeriod, optimal) ==
    IF swell = NoSwell /\ ~Truthy(wavePeriod) THEN 35
    ELSE IF Truthy(swell.height)
    THEN LET swellPeriod == IF Truthy(swell.period) THEN swell.period
                            ELSE OrZero(wavePeriod)
             byHeight == IF swell.height >= 5 /\ swell.height <= 20 THEN 20
                         ELSE IF swell.height > 0 /\ swell.height < 5 THEN 5
                         ELSE IF swell.height > 20 THEN 10
                         ELSE 0
             byPeriod == IF swellPeriod >= 12 THEN 30
                         ELSE IF swellPeriod >= 10 THEN 20
                         ELSE IF swellPeriod >= 8 THEN 10
                         ELSE IF swellPeriod >= 5 THEN 0
                         ELSE -10
             byDirection == IF TruthyDir(swell.direction)
                               /\ swell.direction \in optimal.waveDirection
                            THEN 10 ELSE 0
         IN Clamp(50 + byHeight + byPeriod + byDirection)
    ELSE LET period == OrZero(wavePeriod)
         IN Clamp(50 + (IF period >= 12 THEN 25
                        ELSE IF period >= 9 THEN 10
                        ELSE IF period >= 6 THEN -5
                        ELSE -15))

\* baseScore of scoreWindSpeed, speed in km/h
WindBaseScore(speed) ==
    IF speed <= 8 THEN 100
    ELSE IF speed <= 15 THEN 100 - 3 * (speed - 8)
    ELSE IF speed <= 25 THEN 79 - 4 * (speed - 15)
    ELSE IF speed <= 35 THEN 39 - 3 * (speed - 25)
    ELSE (IF 9 - (speed - 35) < 0 THEN 0 ELSE 9 - (speed - 35))
\* (faulty variant) the ratio tiers add up instead of excluding each other
GustPenaltyCumulative(speed, gusts) ==
    (IF gusts > 2 * speed THEN 20 ELSE 0)
    + (IF 2 * gusts > 3 * speed THEN 10 ELSE 0)
    + (IF 10 * gusts > 13 * speed THEN 5 ELSE 0)
    + (IF gusts > 40 THEN 10 ELSE IF gusts > 30 THEN 5 ELSE 0)
\* the gust penalty: by gusts / speed, then by the gust speed itself
GustPenalty(speed, gusts) ==
    (IF gusts > 2 * speed THEN 20
     ELSE IF 2 * gusts > 3 * speed THEN 10
     ELSE IF 10 * gusts > 13 * speed THEN 5
     ELSE 0)
    + (IF gusts > 40 THEN 10 ELSE IF gusts > 30 THEN 5 ELSE 0)
\* (faulty variant) the final clamp left out
scoreWindSpeedUnclamped(speed, gusts) ==
    IF Truthy(gusts) /\ speed > 0
    THEN WindBaseScore(speed) - GustPenalty(speed, gusts)
    ELSE WindBaseScore(speed)
\* scoreWindSpeed(speed, gusts)
scoreWindSpeed(speed, gusts) ==
    IF Truthy(gusts) /\ speed > 0
    THEN Clamp(WindBaseScore(speed) - GustPenalty(speed, gusts))
    ELSE Clamp(WindBaseScore(speed))

\* directionMap[direction] || []
AdjacentDirections(direction) ==
    CASE direction = "N" -> {"NE", "NW"}
      [] direction = "NE" -> {"N", "E"}
      [] direction = "E" -> {"NE", "SE"}
      [] direction = "SE" -> {"E", "S"}
      [] direction = "S" -> {"SE", "SW"}
      [] direction = "SW" -> {"S", "W"}
      [] direction = "W" -> {"SW", "NW"}
      [] direction = "NW" -> {"N", "W"}
      [] OTHER -> {}

\* scoreWindDirection(direction, optimal)
scoreWindDirection(direction, optimal) ==
    IF ~TruthyDir(direction) THEN 40
    ELSE IF direction \in optimal.windDirection THEN 100
    ELSE IF AdjacentDirections(direction) \cap optimal.windDirection # {} THEN 65
    ELSE 25

\* scoreWaveDirection(waveDirection, swellDirection, optimal)
scoreWaveDirection(waveDirection, swellDirection, optimal) ==
    LET direction == IF TruthyDir(swellDirection) THEN swellDirection ELSE waveDirection
    IN IF ~TruthyDir(direction) THEN 40
       ELSE IF direction \in optimal.waveDirection THEN 100
       ELSE IF AdjacentDirections(direction) \cap optimal.waveDirection # {} THEN 70
       ELSE 35

\* scoreDataConfidence(sourceCount)
scoreDataConfidence(sourceCount) ==
    IF sourceCount >= 5 THEN 100
    ELSE IF sourceCount >= 4 THEN 90
    ELSE IF sourceCount >= 3 THEN 75
    ELSE IF sourceCount >= 2 THEN 55
    ELSE 30

\* (faulty variant) the earlier five-tier map
getRatingFiveTiers(score) ==
    IF score >= 85 THEN "EPIC"
    ELSE IF score >= 70 THEN "GOOD"
    ELSE IF score >= 50 THEN "FAIR"
    ELSE IF score >= 30 THEN "POOR"
    ELSE "FLAT"
\* getRating(score) of the scorer
getRating(score) ==
    IF score >= 85 THEN "EPIC"
    ELSE IF score >= 75 THEN "GREAT"
    ELSE IF score >= 65 THEN "GOOD"
    ELSE IF score >= 50 THEN "FAIR"
    ELSE IF score >= 35 THEN "MARGINAL"
    ELSE IF score >= 20 THEN "POOR"
    ELSE "FLAT"

\* getRating(score) of the frontend, applied to a score adjusted by feedback
getRatingDashboard(score) ==
    IF score >= 85 THEN "EPIC"
    ELSE IF score >= 75 THEN "GREAT"
    ELSE IF score >= 65 THEN "GOOD"
    ELSE IF score >= 50 THEN "FAIR"
    ELSE IF score >= 35 THEN "MARGINAL"
    ELSE IF score >= 20 THEN "POOR"
    ELSE "FLAT"

\* getHeightWord(height), height in tenths
getHeightWord(height) ==
    IF height < 2 THEN "flat"
    ELSE IF height < 4 THEN "ankle-high"
    ELSE IF height < 6 THEN "knee-high"
    ELSE IF height < 9 THEN "waist-high"
    ELSE IF height < 12 THEN "chest-high"
    ELSE IF height < 16 THEN "head-high"
    ELSE IF height < 22 THEN "overhead"
    ELSE IF height < 30 THEN "double-overhead"
    ELSE "triple-overhead"

\* generateExplanation(conditions, breakdown, score): the sentence returned,
\* as the template chosen and the words put into it
generateExplanation(conditions, breakdown, score) ==
    LET height == OrZero(conditions.waves.height.avg)
        period == IF Truthy(conditions.waves.swell.period)
                  THEN conditions.waves.swell.period
                  ELSE OrZero(conditions.waves.period)
        windSpeed == OrZero(conditions.wind.speed)
        heightWord == getHeightWord(height)
        swellWord == IF period >= 12 THEN "clean groundswell"
                     ELSE IF period >= 9 THEN "decent swell"
                     ELSE IF period >= 6 THEN "short wind swell"
                     ELSE "choppy wind slop"
        isOffshore == breakdown.windDirection >= 70
        isOnshore == breakdown.windDirection < 40
        isLight == breakdown.windSpeed >= 70
        isCalm == breakdown.windSpeed >= 85
    IN IF score >= 85
       THEN <<"Pumping!", heightWord, swellWord,
              IF isCalm THEN "glassy offshore winds" ELSE "clean offshore conditions">>
       ELSE IF score >= 75
       THEN <<"Looking really good out there", heightWord,
              IF isOffshore THEN "groomed by the offshore breeze"
              ELSE IF isLight THEN "with light winds keeping things clean"
              ELSE "and the wind is cooperating">>
       ELSE IF score >= 65
       THEN <<"Solid", heightWord, swellWord,
              IF isOnshore THEN "A few bumps from the breeze but" ELSE "">>
       ELSE IF score >= 50
       THEN (IF height < 5 THEN <<"It's small out there but surfable">>
             ELSE <<"It's okay", heightWord,
                    IF isOnshore THEN "the onshore wind is making things messy"
                    ELSE IF period < 8 THEN "the short period means the waves lack push"
                    ELSE "nothing to write home about">>)
       ELSE IF score >= 35
       THEN (IF height < 4 THEN <<"Pretty small and scrappy">>
             ELSE <<"Meh",
                    IF windSpeed > 25 THEN "the wind is making a mess of things"
                    ELSE IF period < 7 THEN "choppy wind swell with no real push"
                    ELSE "conditions are rough",
                    IF windSpeed > 25 /\ TruthyDir(conditions.wind.direction)
                    THEN conditions.wind.direction ELSE "">>)
       ELSE IF score >= 20 THEN <<"Pretty rough out there">>
       ELSE IF height < 2 THEN <<"Basically a lake">>
       ELSE <<"Not much happening">>

\* the seven factor scores of calculateSurfScore before weighting
FactorScores(conditions, optimal, sourceCount) ==
    [waveHeight |-> scoreWaveHeight(OrZero(conditions.waves.height.avg), optimal),
     wavePeriod |-> scoreWavePeriod(OrZero(conditions.waves.period), optimal),
     swellQuality |-> scoreSwellQuality(conditions.waves.swell, conditions.waves.period,
                                        optimal),
     windSpeed |-> scoreWindSpeed(OrZero(conditions.wind.speed), conditions.wind.gusts),
     windDirection |-> scoreWindDirection(conditions.wind.direction, optimal),
     waveDirection |-> scoreWaveDirection(conditions.waves.direction,
                                          conditions.waves.swell.direction, optimal),
     dataConfidence |-> scoreDataConfidence(IF sourceCount # 0 THEN sourceCount ELSE 1)]

\* Math.round of the weighted sum: the two fractions brought to one denominator
WeightedOverall(f) ==
    LET hd == f.waveHeight.d
        pd == f.wavePeriod.d
        whole == WEIGHTS.swellQuality * f.swellQuality
                 + WEIGHTS.windSpeed * f.windSpeed
                 + WEIGHTS.windDirection * f.windDirection
                 + WEIGHTS.waveDirection * f.waveDirection
                 + WEIGHTS.dataConfidence * f.dataConfidence
    IN MathRound(WEIGHTS.waveHeight * f.waveHeight.n * pd
                 + WEIGHTS.wavePeriod * f.wavePeriod.n * hd
                 + whole * hd * pd,
                 100 * hd * pd)

\* clampedScore of calculateSurfScore
OverallScore(f) == Clamp(WeightedOverall(f))

\* the breakdown object: the six displayed factors, each rounded
Breakdown(f) ==
    [waveHeight |-> RoundRat(f.waveHeight),
     wavePeriod |-> RoundRat(f.wavePeriod),
     swellQuality |-> f.swellQuality,
     windSpeed |-> f.windSpeed,
     windDirection |-> f.windDirection,
     waveDirection |-> f.waveDirection]

\* what calculateSurfScore returns for a known spot
calculateSurfScore(conditions, spotId, sourceCount) ==
    LET f == FactorScores(conditions, SPOTS[spotId], sourceCount)
        overall == OverallScore(f)
    IN [overall |-> overall,
        rating |-> getRating(overall),
        explanation |-> generateExplanation(conditions, Breakdown(f), overall),
        breakdown |-> Breakdown(f)]

----------------------------------------------------------------------------
(* Observations handed to the scorer *)

\* a conditions object as the aggregator shapes it
Observation(avg, period, direction, swell, wind) ==
    [waves |-> [height |-> HeightRange(<<>>, avg), period |-> period,
                direction |-> direction, swell |-> swell],
     wind |-> wind,
     weather |-> [airTemp |-> Null, waterTemp |-> Null]]

\* wave heights (tenths) and periods around every threshold of both profiles,
\* with missing, zero and extreme values
HeightValues == {Null, 0, 1, 2, 4, 6, 7, 8, 12, 14, 15, 20, 25, 30, 150}
PeriodValues == {Null, 0, 3, 7, 8, 11, 12, 15, 16, 25}

\* every height with every period, with and without swell and wind
SizeSweep ==
    { Observation(h, p, NullDir, s, w) :
        h \in HeightValues, p \in PeriodValues,
        s \in {NoSwell, Swell(10, 12, "W")},
        w \in {NoWind, Wind(5, "E", Null)} }

\* every wind speed with every gust speed and direction, on a good and on a flat sea
WindSweep ==
    { Observation(hp[1], hp[2], "W", NoSwell, Wind(v, d, g)) :
        hp \in {<<15, 12>>, <<0, Null>>},
        v \in {Null, 0, 5, 8, 10, 15, 20, 25, 30, 35, 50},
        g \in {Null, 0, 7, 14, 16, 31, 35, 41, 45, 90},
        d \in {NullDir, "E", "N", "W", "WSW"} }

\* the swell sub-records: none, and every height with every period and direction
SwellValues ==
    {NoSwell} \cup
    { Swell(h, p, d) : h \in {0, 3, 5, 10, 20, 25}, p \in {Null, 3, 5, 8, 10, 12},
                       d \in {NullDir, "W", "S"} }

\* an ideal height and period in a light offshore wind, with every swell
\* sub-record, wave direction and gust speed
GoodDaySweep ==
    { Observation(15, 12, d, s, Wind(5, wd, g)) :
        d \in {NullDir, "W", "S", "E"}, s \in SwellValues,
        wd \in {"E", "SE"}, g \in {Null, 6, 11, 35, 45} }

ObservationSet == SizeSweep \cup WindSweep \cup GoodDaySweep

\* the spot ids asked for: the configured spots and one that is not configured
SpotIds == DOMAIN SPOTS \cup {"unknown_spot"}
\* the source counts passed: 0 (taken as 1) up to every adapter
SourceCounts == 0..NumAdapters

InitScore ==
    /\ RouteIdle
    /\ AggregatorIdle
    /\ HourlyIdle
    /\ TrendIdle
    /\ ExtIdle
    /\ scorePc = "ready"
    /\ scoreArgs \in [conditions : ObservationSet, spotId : SpotIds,
                      sourceCount : SourceCounts]
    /\ scoreResult = <<>>

\* calculateSurfScore(conditions, spotId, sourceCount) for a configured spot
Score ==
    /\ scorePc = "ready"
    /\ isValidSpot(scoreArgs.spotId)
    /\ scorePc' = "done"
    /\ scoreResult' = calculateSurfScore(scoreArgs.conditions, scoreArgs.spotId,
                                         scoreArgs.sourceCount)
    /\ UNCHANGED <<scoreArgs, routeVars, aggVars, hourVars, trendVars, extVars>>

\* calculateSurfScore throws "Invalid spot ID" before any scoring
ScoreInvalidSpot ==
    /\ scorePc = "ready"
    /\ ~isValidSpot(scoreArgs.spotId)
    /\ scorePc' = "threw"
    /\ UNCHANGED <<scoreArgs, scoreResult, routeVars, aggVars, hourVars, trendVars, extVars>>

NextScore == Score \/ ScoreInvalidSpot

SpecScore == InitScore /\ [][NextScore]_vars

----------------------------------------------------------------------------
(* Properties of the scorer *)

\* the seven tiers with the lowest and highest overall score of each
TierBounds ==
    [FLAT |-> <<0, 19>>, POOR |-> <<20, 34>>, MARGINAL |-> <<35, 49>>,
     FAIR |-> <<50, 64>>, GOOD |-> <<65, 74>>, GREAT |-> <<75, 84>>,
     EPIC |-> <<85, 100>>]
\* rating is the tier the overall score falls in
IsTierOf(rating, overall) ==
    /\ rating \in DOMAIN TierBounds
    /\ TierBounds[rating][1] <= overall
    /\ overall <= TierBounds[rating][2]

\* the arguments of the scoring call
ScoredConditions == scoreArgs.conditions
ScoredProfile == SPOTS[scoreArgs.spotId]
\* conditions.waves.height.avg as the scorer reads it (missing is 0)
ScoredHeight == OrZero(ScoredConditions.waves.height.avg)
ScoredPeriod == OrZero(ScoredConditions.waves.period)

\* C13: for every Observation, profile and sourceCount the overall score is
\* in [0,100], every breakdown factor is in [0,100], and the rating is the
\* tier of the overall score
C13_ScoreInRange ==
    scorePc = "done" =>
        /\ scoreResult.overall \in 0..100
        /\ \A k \in DOMAIN scoreResult.breakdown : scoreResult.breakdown[k] \in 0..100
        /\ IsTierOf(scoreResult.rating, scoreResult.overall)

\* a blown-out sea: 50 km/h with gusts of 90, the penalties hitting the floor
C13_Witness ==
    /\ scorePc = "done"
    /\ ScoredConditions.wind.speed = 50
    /\ ScoredConditions.wind.gusts = 90
    /\ scoreResult.breakdown.windSpeed = 0
    /\ scoreResult.overall > 0

\* C14: a wave height at or below the flat threshold (0.1 m, or missing)
\* gives overall 0 whatever the period, swell, wind and sourceCount
C14_FlatScoresZero ==
    (scorePc = "done" /\ ScoredHeight <= 1) => scoreResult.overall = 0

\* the wave height lies in the profile's [min, max] band, the period is the
\* band's ideal value
InBandAtIdealPeriod ==
    /\ scorePc = "done"
    /\ ScoredHeight >= ScoredProfile.waveHeight.min
    /\ ScoredHeight <= ScoredProfile.waveHeight.max
    /\ ScoredPeriod = ScoredProfile.wavePeriod.ideal

\* C15 as stated: anywhere in the [min, max] band, at the ideal period, the
\* wave-height and the wave-period sub-score are each at least 90
C15_BandScoresAtLeast90 ==
    InBandAtIdealPeriod =>
        /\ scoreResult.breakdown.waveHeight >= 90
        /\ scoreResult.breakdown.wavePeriod >= 90

\* C15 amended: at the ideal period the wave-period sub-score is 100; in the
\* band the wave-height sub-score is at least 50: 50 at min, 100 at ideal and
\* 70 at max, never below 70 from ideal to max
C15_BandScores ==
    InBandAtIdealPeriod =>
        /\ scoreResult.breakdown.wavePeriod = 100
        /\ scoreResult.breakdown.waveHeight >= 50
        /\ ScoredHeight = ScoredProfile.waveHeight.min
             => scoreResult.breakdown.waveHeight = 50
        /\ ScoredHeight = ScoredProfile.waveHeight.ideal
             => scoreResult.breakdown.waveHeight = 100
        /\ ScoredHeight = ScoredProfile.waveHeight.max
             => scoreResult.breakdown.waveHeight = 70
        /\ ScoredHeight >= ScoredProfile.waveHeight.ideal
             => scoreResult.breakdown.waveHeight >= 70

\* a height exactly at the lower end of the band, at the ideal period
C15_Witness ==
    /\ InBandAtIdealPeriod
    /\ ScoredHeight = ScoredProfile.waveHeight.min
    /\ scoreResult.breakdown.waveHeight = 50
    /\ scoreResult.breakdown.wavePeriod = 100

\* the scenario: Herzliya's profile (0.8 / 1.5 / 2.5 m, ideal period 12 s),
\* height 1.5 m, period 12 s, a 5 km/h offshore wind, five sources
EpicScenario ==
    /\ scorePc = "done"
    /\ scoreArgs.spotId = "herzliya_marina"
    /\ scoreArgs.sourceCount = 5
    /\ ScoredConditions.waves.height.avg = 15
    /\ ScoredConditions.waves.period = 12
    /\ ScoredConditions.wind.speed = 5
    /\ ScoredConditions.wind.direction \in ScoredProfile.windDirection

\* C16 as stated: the scenario scores at least 85 and EPIC whatever the swell
\* sub-record, the wave direction and the gusts are
C16_ScenarioIsEpic ==
    EpicScenario => (scoreResult.overall >= 85 /\ scoreResult.rating = "EPIC")

\* C16 amended: the scenario scores at least 84 and GREAT or EPIC; without a
\* gust reading it scores at least 89 and EPIC whatever the swell sub-record
\* and the wave direction are, and 93 with none of the three given
C16_ScenarioIsEpicWithoutGusts ==
    EpicScenario =>
        /\ scoreResult.overall >= 84
        /\ scoreResult.rating \in {"GREAT", "EPIC"}
        /\ ~Truthy(ScoredConditions.wind.gusts)
             => (scoreResult.overall >= 89 /\ scoreResult.rating = "EPIC")
        /\ (/\ ~Truthy(ScoredConditions.wind.gusts)
            /\ ScoredConditions.waves.swell = NoSwell
            /\ ~TruthyDir(ScoredConditions.waves.direction))
             => scoreResult.overall = 93

\* the scenario with gusts of 45 km/h over a weak short-period swell
C16_Witness ==
    /\ EpicScenario
    /\ ScoredConditions.wind.gusts = 45
    /\ ScoredConditions.waves.swell = Swell(3, 3, NullDir)
    /\ ScoredConditions.waves.direction = NullDir
    /\ scoreResult.breakdown.windSpeed = 70
    /\ scoreResult.overall = 84
    /\ scoreResult.rating = "GREAT"

\* the sustained speed and the gust speed as scoreWindSpeed receives them
ScoredWindSpeed == OrZero(ScoredConditions.wind.speed)
ScoredGusts == ScoredConditions.wind.gusts
\* the gust reading is over 1.3 times the sustained speed
GustRatioOver13 == ScoredWindSpeed > 0 /\ 10 * ScoredGusts > 13 * ScoredWindSpeed

\* C17: with a gust reading the wind-speed sub-score is never above the
\* sub-score of the same sustained speed (0 and missing included) without
\* gusts, and it is strictly lower, unless that is already 0, when the
\* gust / sustained ratio is over 1.3 or the gusts are over 30 km/h
C17_GustsOnlyDegrade ==
    (scorePc = "done" /\ Truthy(ScoredGusts)) =>
        LET without == scoreWindSpeed(ScoredWindSpeed, Null)
        IN /\ scoreResult.breakdown.windSpeed <= without
           /\ (GustRatioOver13 \/ ScoredGusts > 30)
                => (scoreResult.breakdown.windSpeed < without \/ without = 0)

\* the tiers from worst to best
TierOrder == <<"FLAT", "POOR", "MARGINAL", "FAIR", "GOOD", "GREAT", "EPIC">>
TierRank(rating) == CHOOSE i \in 1..Len(TierOrder) : TierOrder[i] = rating

\* the scorer's map takes exactly the seven tiers and never falls as the score rises
SevenMonotoneTiers ==
    /\ { getRating(s) : s \in 0..100 } = { TierOrder[i] : i \in 1..Len(TierOrder) }
    /\ \A s \in 0..99 : TierRank(getRating(s)) <= TierRank(getRating(s + 1))
\* the scorer's and the frontend's map agree on every integer score
SameMapOnEveryScore == \A s \in 0..100 : getRating(s) = getRatingDashboard(s)

----------------------------------------------------------------------------
(* Trend analysis: services/trend.js generateTrend *)

\* the hourlyTimeline argument: an array of hourly conditions, or none at all
TimelineArg(entries) == [absent |-> FALSE, entries |-> entries]
AbsentTimeline == [absent |-> TRUE, entries |-> <<>>]

\* the clock read by generateTrend. hour is now.getHours(), the hour of the
\* server's local time, and localToday the day of that local time; today is
\* the day of now.toISOString(), the UTC date. Days are counted like the days
\* of the timeline.
Now(today, hour, localToday) == [today |-> today, hour |-> hour, localToday |-> localToday]

\* blockDefs: day is 0 for todayStr and 1 for tomorrowStr
blockDefs ==
    << [label |-> "This morning", day |-> 0, startHour |-> 6, endHour |-> 11,
        skipIfPast |-> TRUE],
       [label |-> "Midday", day |-> 0, startHour |-> 11, endHour |-> 14,
        skipIfPast |-> TRUE],
       [label |-> "This afternoon", day |-> 0, startHour |-> 14, endHour |-> 18,
        skipIfPast |-> TRUE],
       [label |-> "This evening", day |-> 0, startHour |-> 18, endHour |-> 21,
        skipIfPast |-> TRUE],
       [label |-> "Tomorrow morning", day |-> 1, startHour |-> 6, endHour |-> 11,
        skipIfPast |-> FALSE],
       [label |-> "Tomorrow midday", day |-> 1, startHour |-> 11, endHour |-> 14,
        skipIfPast |-> FALSE],
       [label |-> "Tomorrow afternoon", day |-> 1, startHour |-> 14, endHour |-> 18,
        skipIfPast |-> FALSE],
       [label |-> "Tomorrow evening", day |-> 1, startHour |-> 18, endHour |-> 21,
        skipIfPast |-> FALSE] >>

\* (faulty variant) the length read without the check for a missing timeline
HourlyDataCheckNoNullGuard(hourlyTimeline) ==
    IF hourlyTimeline.absent THEN "TypeError"
    ELSE IF Len(hourlyTimeline.entries) < 3 THEN "not enough"
    ELSE "enough"
\* !hourlyTimeline || hourlyTimeline.length < 3, evaluated left to right
HourlyDataCheck(hourlyTimeline) ==
    IF hourlyTimeline.absent THEN "not enough"
    ELSE IF Len(hourlyTimeline.entries) < 3 THEN "not enough"
    ELSE "enough"

\* the hourly entries of the timeline that fall into a block
BlockEntries(entries, def, now) ==
    SelectSeq(entries,
              LAMBDA h : /\ h.time[1] = now.today + def.day
                         /\ h.time[2] >= def.startHour
                         /\ h.time[2] < def.endHour)

\* averageBlockEntries(entries): one conditions object for a block
averageBlockEntries(entries) ==
    LET es == [i \in 1..Len(entries) |-> [data |-> entries[i]]]
    IN [waves |-> [height |-> [avg |-> ScalarField(es, "waves.height.avg")],
                   period |-> ScalarField(es, "waves.period"),
                   direction |-> mostCommon(CollectDir(es, "waves.direction")),
                   swell |-> SwellRecord(es)],
        wind |-> [speed |-> ScalarField(es, "wind.speed"),
                  direction |-> mostCommon(CollectDir(es, "wind.direction")),
                  gusts |-> ScalarField(es, "wind.gusts")],
        weather |-> [airTemp |-> Null, waterTemp |-> Null]]

\* the blocks pushed by the loop over blockDefs from position i on: a block is
\* skipped when it is past, has no entries, or scoring it throws
RECURSIVE ScoredBlocks(_, _, _, _)
ScoredBlocks(entries, spotId, now, i) ==
    IF i > Len(blockDefs) THEN <<>>
    ELSE LET def == blockDefs[i]
             blockEntries == BlockEntries(entries, def, now)
             rest == ScoredBlocks(entries, spotId, now, i + 1)
         IN IF def.skipIfPast /\ def.endHour <= now.hour THEN rest
            ELSE IF Len(blockEntries) = 0 THEN rest
            ELSE IF ~isValidSpot(spotId) THEN rest
            ELSE LET blockConditions == averageBlockEntries(blockEntries)
                     s == calculateSurfScore(blockConditions, spotId, 3)
                 IN << [label |-> def.label, score |-> s.overall, rating |-> s.rating,
                        conditions |-> blockConditions, breakdown |-> s.breakdown] >>
                    \o rest

\* (faulty variant) b.score >= best.score: the last of the best blocks wins
RECURSIVE BestBlockLast(_, _)
BestBlockLast(blocks, best) ==
    IF blocks = <<>> THEN best
    ELSE BestBlockLast(Tail(blocks), IF Head(blocks).score >= best.score THEN Head(blocks)
                                     ELSE best)
\* blocks.reduce((best, b) => b.score > best.score ? b : best, blocks[0])
RECURSIVE BestBlock(_, _)
BestBlock(blocks, best) ==
    IF blocks = <<>> THEN best
    ELSE BestBlock(Tail(blocks), IF Head(blocks).score > best.score THEN Head(blocks)
                                 ELSE best)

\* the sum of the block scores
RECURSIVE SumScores(_)
SumScores(blocks) ==
    IF blocks = <<>> THEN 0 ELSE Head(blocks).score + SumScores(Tail(blocks))

\* (faulty variant) a difference of exactly 8 already counts
TrendDirectionInclusive(blocks, currentScore) ==
    IF SumScores(blocks) >= (currentScore + 8) * Len(blocks) THEN "improving"
    ELSE IF SumScores(blocks) <= (currentScore - 8) * Len(blocks) THEN "declining"
    ELSE "stable"
\* trend: scoreDiff = avgFutureScore - currentScore against +8 and -8
TrendDirection(blocks, currentScore) ==
    IF SumScores(blocks) > (currentScore + 8) * Len(blocks) THEN "improving"
    ELSE IF SumScores(blocks) < (currentScore - 8) * Len(blocks) THEN "declining"
    ELSE "stable"

\* the reasons generateTrendMessage collects for a better window
TrendReasons(bestBlock, currentBlock) ==
    LET bestWind == bestBlock.conditions.wind.speed
        currentWind == currentBlock.conditions.wind.speed
        bestWindDir == bestBlock.conditions.wind.direction
        currentWindDir == currentBlock.conditions.wind.direction
        bestHeight == bestBlock.conditions.waves.height.avg
        currentHeight == currentBlock.conditions.waves.height.avg
        bestPeriod == bestBlock.conditions.waves.period
    IN (IF Truthy(bestWind) /\ Truthy(currentWind) /\ bestWind < currentWind - 5
        THEN <<"wind should ease">> ELSE <<>>)
       \o (IF TruthyDir(bestWindDir) /\ TruthyDir(currentWindDir)
              /\ bestWindDir # currentWindDir
           THEN (IF bestWindDir \in {"E", "NE", "SE"}
                 THEN <<"wind shifting (offshore)">> ELSE <<"wind shifting to">>)
           ELSE <<>>)
       \o (IF Truthy(bestHeight) /\ Truthy(currentHeight) /\ bestHeight > currentHeight + 2
           THEN <<"swell building">> ELSE <<>>)
       \o (IF Truthy(bestPeriod)
              /\ bestPeriod > OrZero(currentBlock.conditions.waves.period) + 2
           THEN <<"swell period increasing">> ELSE <<>>)

\* (faulty variant) the trend tag is not looked at when the best block is no
\* better than now
generateTrendMessageIgnoringTag(currentScore, bestBlock, blocks, trend) ==
    LET diff == bestBlock.score - currentScore
    IN IF diff <= 3
       THEN [template |-> "Conditions look stable for the next hours",
             reasons |-> <<>>, label |-> "", rating |-> "", score |-> Null]
       ELSE IF diff >= 5
       THEN LET reasons == TrendReasons(bestBlock, blocks[1])
            IN [template |-> "<reasons> <label> - expect <rating> (<score>/100)",
                reasons |-> IF Len(reasons) > 0 THEN reasons
                            ELSE <<"conditions improving">>,
                label |-> bestBlock.label, rating |-> bestBlock.rating,
                score |-> bestBlock.score]
       ELSE [template |-> "Slight improvement expected <label> - <rating> (<score>/100)",
             reasons |-> <<>>, label |-> bestBlock.label, rating |-> bestBlock.rating,
             score |-> bestBlock.score]
\* generateTrendMessage: the sentence as its template and what is put into it
generateTrendMessage(currentScore, bestBlock, blocks, trend) ==
    LET diff == bestBlock.score - currentScore
    IN IF diff <= 3
       THEN (IF trend = "declining"
             THEN [template |-> "Conditions are expected to decline - best to go now",
                   reasons |-> <<>>, label |-> "", rating |-> "", score |-> Null]
             ELSE [template |-> "Conditions look stable for the next hours",
                   reasons |-> <<>>, label |-> "", rating |-> "", score |-> Null])
       ELSE IF diff >= 5
       THEN LET reasons == TrendReasons(bestBlock, blocks[1])
            IN [template |-> "<reasons> <label> - expect <rating> (<score>/100)",
                reasons |-> IF Len(reasons) > 0 THEN reasons
                            ELSE <<"conditions improving">>,
                label |-> bestBlock.label, rating |-> bestBlock.rating,
                score |-> bestBlock.score]
       ELSE [template |-> "Slight improvement expected <label> - <rating> (<score>/100)",
             reasons |-> <<>>, label |-> bestBlock.label, rating |-> bestBlock.rating,
             score |-> bestBlock.score]

\* the { label, score, rating } objects of result.blocks
BlockSummaries(blocks) ==
    [i \in 1..Len(blocks) |->
        [label |-> blocks[i].label, score |-> blocks[i].score, rating |-> blocks[i].rating]]

\* what generateTrend returns: <<>> for null, else the result in a 1-tuple
generateTrend(hourlyTimeline, spotId, currentScore, now) ==
    IF HourlyDataCheck(hourlyTimeline) # "enough" THEN <<>>
    ELSE LET blocks == ScoredBlocks(hourlyTimeline.entries, spotId, now, 1)
         IN IF Len(blocks) = 0 THEN <<>>
            ELSE LET bestBlock == BestBlock(blocks, blocks[1])
                     trend == TrendDirection(blocks, currentScore)
                 IN << [trend |-> trend,
                        bestWindow |-> [label |-> bestBlock.label,
                                        score |-> bestBlock.score,
                                        rating |-> bestBlock.rating],
                        message |-> generateTrendMessage(currentScore, bestBlock, blocks,
                                                         trend),
                        blocks |-> BlockSummaries(blocks)] >>

----------------------------------------------------------------------------
(* Timelines handed to the trend analysis *)

\* the timeline entry the hourly aggregator builds from one source's entry
TimelineEntry(time, data) == HourlyConditions(time, <<HourlyEntry(time, data)>>)

\* a clean groundswell in a light offshore wind
CleanHour ==
    Reading("hour", Height(Null, Null, 15), 12, "W", Swell(12, 12, "W"),
            Wind(5, "E", Null), Null, Null).data
\* small wind chop in a strong gusty onshore wind
BlownOutHour ==
    Reading("hour", Height(Null, Null, 6), 5, "N", NoSwell,
            Wind(30, "W", 45), Null, Null).data

\* the hours a sample timeline may hold an entry for, in ascending order
TimelineSlots ==
    << Time(-1, 7, 0), Time(0, 7, 0), Time(0, 12, 0), Time(0, 19, 0), Time(0, 22, 0),
       Time(1, 7, 0), Time(1, 15, 0) >>

\* what a slot may hold; the slot of the day before holds what the
\* surf-forecast scraper stamps with the UTC date shortly after local midnight
SlotKinds(i) == IF i = 1 THEN {"none", "blown"} ELSE {"none", "clean", "blown"}

\* the timeline with, per slot, no entry, a clean hour or a blown-out hour
RECURSIVE TimelineOf(_, _)
TimelineOf(choice, i) ==
    IF i > Len(TimelineSlots) THEN <<>>
    ELSE (CASE choice[i] = "none" -> <<>>
            [] choice[i] = "clean" -> <<TimelineEntry(TimelineSlots[i], CleanHour)>>
            [] choice[i] = "blown" -> <<TimelineEntry(TimelineSlots[i], BlownOutHour)>>)
         \o TimelineOf(choice, i + 1)

TimelineSet ==
    { AbsentTimeline } \cup
    { TimelineArg(TimelineOf(choice, 1)) :
        choice \in { c \in [1..Len(TimelineSlots) -> {"none", "clean", "blown"}] :
                        \A i \in 1..Len(TimelineSlots) : c[i] \in SlotKinds(i) } }

\* the clocks: before dawn, after midday, late evening, and shortly after
\* local midnight east of Greenwich, where the UTC date is still the day before
NowSet == { Now(0, 5, 0), Now(0, 13, 0), Now(0, 20, 0), Now(-1, 1, 0) }

\* the current overall scores passed in: some are exactly 8 away from the mean
\* of blocks the sample hours score to
CurrentScores == {21, 37, 60, 72, 90, 91}

InitTrend ==
    /\ RouteIdle
    /\ AggregatorIdle
    /\ HourlyIdle
    /\ ScorerIdle
    /\ ExtIdle
    /\ trendPc = "ready"
    /\ trendArgs \in [hourlyTimeline : TimelineSet, spotId : SpotIds,
                      currentScore : CurrentScores, now : NowSet]
    /\ trendResult = <<>>

\* one call generateTrend(hourlyTimeline, spotId, currentScore): it returns
\* null or a result, or ends by the TypeError of reading a missing timeline
GenerateTrend ==
    /\ trendPc = "ready"
    /\ trendPc' = IF HourlyDataCheck(trendArgs.hourlyTimeline) = "TypeError"
                  THEN "threw" ELSE "done"
    /\ trendResult' = IF HourlyDataCheck(trendArgs.hourlyTimeline) = "TypeError"
                      THEN <<>>
                      ELSE generateTrend(trendArgs.hourlyTimeline, trendArgs.spotId,
                                         trendArgs.currentScore, trendArgs.now)
    /\ UNCHANGED <<trendArgs, routeVars, aggVars, hourVars, scoreVars, extVars>>

NextTrend == GenerateTrend

SpecTrend == InitTrend /\ [][NextTrend]_vars

----------------------------------------------------------------------------
(* Properties of the trend analysis *)

\* C20: with a timeline that is absent, empty or shorter than 3 hourly
\* entries, generateTrend returns its "no trend available" result (null) and
\* does not throw, for every spot and current score
C20_ShortTimelineNoTrend ==
    (trendArgs.hourlyTimeline.absent \/ Len(trendArgs.hourlyTimeline.entries) < 3) =>
        /\ trendPc # "threw"
        /\ trendPc = "done" => trendResult = <<>>

\* a call with a missing timeline returned null
C20_Witness ==
    /\ trendPc = "done"
    /\ trendArgs.hourlyTimeline.absent
    /\ trendResult = <<>>

\* a call of generateTrend has returned a result
TrendReturned == trendPc = "done" /\ trendResult # <<>>

\* the sum of the scores of the first n blocks of a result
RECURSIVE ResultScoreSum(_, _)
ResultScoreSum(blocks, n) ==
    IF n = 0 THEN 0 ELSE blocks[n].score + ResultScoreSum(blocks, n - 1)

\* C21: whenever generateTrend returns a result, bestWindow is one of the
\* evaluated blocks, no evaluated block scores higher, and every block before
\* it in the block order scores strictly lower (first of the maxima)
C21_BestWindowFirstMaximum ==
    TrendReturned =>
        LET r == trendResult[1]
        IN \E i \in 1..Len(r.blocks) :
              /\ r.blocks[i] = r.bestWindow
              /\ \A j \in 1..Len(r.blocks) : r.blocks[j].score <= r.bestWindow.score
              /\ \A j \in 1..(i - 1) : r.blocks[j].score < r.bestWindow.score

\* a result whose maximum is shared by two blocks, after a lower-scoring one
C21_Witness ==
    /\ TrendReturned
    /\ LET r == trendResult[1]
       IN /\ Len(r.blocks) >= 3
          /\ r.blocks[1].score < r.bestWindow.score
          /\ r.blocks[2] = r.bestWindow
          /\ r.blocks[3].score = r.bestWindow.score

\* C22: the trend tag is 'improving' exactly when the mean of the evaluated
\* block scores minus currentScore is above 8, 'declining' exactly when it is
\* below -8, and 'stable' otherwise, a difference of exactly 8 or -8 included
C22_TrendTagThreshold ==
    TrendReturned =>
        LET r == trendResult[1]
            n == Len(r.blocks)
            total == ResultScoreSum(r.blocks, n)
            cur == trendArgs.currentScore
        IN /\ r.trend \in {"improving", "declining", "stable"}
           /\ r.trend = "improving" <=> total - cur * n > 8 * n
           /\ r.trend = "declining" <=> total - cur * n < -8 * n

\* a result whose mean is exactly 8 above the current score, tagged stable
C22_Witness ==
    /\ TrendReturned
    /\ LET r == trendResult[1]
           n == Len(r.blocks)
       IN /\ ResultScoreSum(r.blocks, n) - trendArgs.currentScore * n = 8 * n
          /\ r.trend = "stable"

\* the position in blockDefs of the block with a label
DefIndexOf(label) == CHOOSE i \in 1..Len(blockDefs) : blockDefs[i].label = label

\* a block lies entirely in the past of the clock: its calendar day is before
\* the clock's day, or it is the clock's day and the block has ended
EntirelyPast(def, now) ==
    \/ now.today + def.day < now.localToday
    \/ now.today + def.day = now.localToday /\ def.endHour <= now.hour

\* the timeline entry lies in the block on the block's calendar day
EntryInBlock(h, def, now) ==
    /\ h.time[1] = now.today + def.day
    /\ h.time[2] >= def.startHour
    /\ h.time[2] < def.endHour

\* (a) no block of the result is entirely in the past, and a today-block is
\* in it only with an end hour later than the clock's hour
TrendBlocksNotPast ==
    TrendReturned =>
        \A i \in 1..Len(trendResult[1].blocks) :
            LET def == blockDefs[DefIndexOf(trendResult[1].blocks[i].label)]
            IN /\ ~EntirelyPast(def, trendArgs.now)
               /\ def.skipIfPast => def.endHour > trendArgs.now.hour

\* (b) every block of the result has a timeline entry in its range on its
\* day, and no timeline entry lies in two blocks of the result
TrendBlocksFromOwnEntries ==
    TrendReturned =>
        LET blocks == trendResult[1].blocks
            entries == trendArgs.hourlyTimeline.entries
        IN /\ \A i \in 1..Len(blocks) :
                \E k \in 1..Len(entries) :
                    EntryInBlock(entries[k], blockDefs[DefIndexOf(blocks[i].label)],
                                 trendArgs.now)
           /\ \A k \in 1..Len(entries) : \A i, j \in 1..Len(blocks) :
                (/\ EntryInBlock(entries[k], blockDefs[DefIndexOf(blocks[i].label)],
                                 trendArgs.now)
                 /\ EntryInBlock(entries[k], blockDefs[DefIndexOf(blocks[j].label)],
                                 trendArgs.now)) => i = j

\* the blocks of a result are in the order of blockDefs, and there is at
\* least one: with no evaluated block the call returns null
TrendBlocksInOrder ==
    TrendReturned =>
        LET blocks == trendResult[1].blocks
        IN /\ Len(blocks) >= 1
           /\ \A i, j \in 1..Len(blocks) :
                i < j => DefIndexOf(blocks[i].label) < DefIndexOf(blocks[j].label)

\* C23: every block of a trend result is not entirely in the past (a
\* today-block only with an end hour later than now's hour, today and the hour
\* read off the same clock), was built from at least one timeline entry of
\* its range and day, shares no entry with another block, the blocks are in
\* the fixed order, and without an evaluated block there is no result
C23_BlocksUpcomingAndOrdered ==
    /\ TrendBlocksNotPast
    /\ TrendBlocksFromOwnEntries
    /\ TrendBlocksInOrder

\* the sentences of generateTrendMessage by what they tell the reader
SaysDeclineGoNow(message) ==
    message.template = "Conditions are expected to decline - best to go now"
SaysStable(message) ==
    message.template = "Conditions look stable for the next hours"
AnnouncesBetterWindow(message) ==
    message.template \in {"<reasons> <label> - expect <rating> (<score>/100)",
                          "Slight improvement expected <label> - <rating> (<score>/100)"}

\* C29 (as stated): with the tag 'declining' the message never announces
\* improving conditions or a better window to come, and with the tag
\* 'improving' it never says conditions are stable or advises going now
C29_MessageNeverContradictsTag ==
    TrendReturned =>
        LET r == trendResult[1]
        IN /\ r.trend = "declining" => ~AnnouncesBetterWindow(r.message)
           /\ r.trend = "improving" =>
                ~SaysStable(r.message) /\ ~SaysDeclineGoNow(r.message)

\* C29 (amended): with the tag 'improving' the message never says stable or
\* go now; with the tag 'declining' the message advises going now exactly when
\* the best window scores at most 3 above the current score, and otherwise
\* announces that better window; it says 'stable' only with a tag other than
\* 'declining'
C29_MessageFollowsBestWindow ==
    TrendReturned =>
        LET r == trendResult[1]
            diff == r.bestWindow.score - trendArgs.currentScore
        IN /\ r.trend = "improving" =>
                ~SaysStable(r.message) /\ ~SaysDeclineGoNow(r.message)
           /\ r.trend = "declining" =>
                /\ SaysDeclineGoNow(r.message) <=> diff <= 3
                /\ AnnouncesBetterWindow(r.message) <=> diff > 3
           /\ SaysStable(r.message) => r.trend # "declining"

\* a result tagged 'declining' whose message announces a better window
C29_Witness ==
    /\ TrendReturned
    /\ trendResult[1].trend = "declining"
    /\ AnnouncesBetterWindow(trendResult[1].message)
    /\ trendResult[1].message.score = trendResult[1].bestWindow.score

----------------------------------------------------------------------------
(* Reweighting in the dashboard: Dashboard.js recalculateScore, SpotFeedback *)

\* Object.keys(FACTOR_LABELS)
FACTOR_LABELS ==
    <<"waveHeight", "wavePeriod", "swellQuality", "windSpeed", "windDirection",
      "waveDirection">>

\* a null or undefined object
NoObject == <<>>

\* multipliers[key] || 1.0, multipliers in hundredths
OrOne(x) == IF Truthy(x) THEN x ELSE 100

\* sum over the first n keys of FACTOR_LABELS of a function on the keys
RECURSIVE SumOverFactors(_, _)
SumOverFactors(f, n) ==
    IF n = 0 THEN 0 ELSE f[FACTOR_LABELS[n]] + SumOverFactors(f, n - 1)

FactorKeys == { FACTOR_LABELS[i] : i \in 1..Len(FACTOR_LABELS) }

\* adjusted[key] = (weights[key] || 0) * (multipliers[key] || 1.0), before
\* the division by sum; weights and multipliers both in hundredths
AdjustedWeights(weights, multipliers) ==
    [key \in FactorKeys |-> OrZero(weights[key]) * OrOne(multipliers[key])]

\* recalculateScore(breakdown, weights, multipliers): <<>> for null, else
\* Math.round(Math.max(0, Math.min(100, overall))) in a 1-tuple; overall is
\* the exact quotient, which lies in 0..100 for scores in 0..100 and a
\* positive sum
recalculateScore(breakdown, weights, multipliers) ==
    IF breakdown = NoObject \/ weights = NoObject \/ multipliers = NoObject THEN <<>>
    ELSE LET adjusted == AdjustedWeights(weights, multipliers)
             sum == SumOverFactors(adjusted, Len(FACTOR_LABELS))
             weighted == [key \in FactorKeys |-> OrZero(breakdown[key]) * adjusted[key]]
         IN IF sum = 0 THEN <<>>
            ELSE << Clamp(MathRound(SumOverFactors(weighted, Len(FACTOR_LABELS)), sum)) >>

\* the scores the dashboard may hold: a sweep of observations scored for
\* each configured spot with one, three and every source
ScoreSamples ==
    { calculateSurfScore(c, s, n) :
        c \in SizeSweep, s \in DOMAIN SPOTS, n \in {1, 3, NumAdapters} }

\* conditions.weights: absent (this route does not send it), the scorer's
\* base weights, or all zero
NoWeights == [key \in FactorKeys |-> 0]
WeightSamples == { NoObject, WEIGHTS, NoWeights }

\* data.multipliers, in hundredths: none, neutral, all zero, a mix within
\* 0.2..2.5, and a mix with a factor missing
NeutralMultipliers == [key \in FactorKeys |-> 100]
ZeroMultipliers == [key \in FactorKeys |-> 0]
MultiplierSamples ==
    { NoObject, NeutralMultipliers, ZeroMultipliers,
      [waveHeight |-> 20, wavePeriod |-> 250, swellQuality |-> 100, windSpeed |-> 58,
       windDirection |-> 30, waveDirection |-> 120],
      [waveHeight |-> 250, wavePeriod |-> 20, swellQuality |-> Null, windSpeed |-> 180,
       windDirection |-> 100, waveDirection |-> 20] }

InitReweight ==
    /\ RouteIdle
    /\ AggregatorIdle
    /\ PureIdle
    /\ FeedbackIdle
    /\ CacheIdle
    /\ McpIdle
    /\ rwPc = "ready"
    /\ rwArgs \in [score : ScoreSamples, weights : WeightSamples,
                   multipliers : MultiplierSamples]
    /\ rwResult = <<>>
    /\ displayed = [score |-> rwArgs.score.overall, rating |-> rwArgs.score.rating]

\* SpotFeedback receives the feedback data: with multipliers it recalculates,
\* and an adjusted score that is not null replaces the displayed one
ApplyMultipliers ==
    /\ rwPc = "ready"
    /\ rwPc' = "done"
    /\ IF rwArgs.multipliers = NoObject
       THEN UNCHANGED <<rwResult, displayed>>
       ELSE LET adjusted == recalculateScore(rwArgs.score.breakdown, rwArgs.weights,
                                             rwArgs.multipliers)
            IN /\ rwResult' = adjusted
               /\ displayed' = IF adjusted # <<>>
                               THEN [score |-> adjusted[1],
                                     rating |-> getRatingDashboard(adjusted[1])]
                               ELSE displayed
    /\ UNCHANGED <<rwArgs, routeVars, aggVars, pureVars, feedbackVars, cacheVars, mcpVars>>

NextReweight == ApplyMultipliers

SpecReweight == InitReweight /\ [][NextReweight]_vars

----------------------------------------------------------------------------
(* Properties of the reweighting *)

\* the dashboard recalculated with a breakdown, weights and multipliers
Reweighted ==
    /\ rwPc = "done"
    /\ rwArgs.weights # NoObject
    /\ rwArgs.multipliers # NoObject

WeightTimesMultiplierSum ==
    SumOverFactors([key \in FactorKeys |->
                      OrZero(rwArgs.weights[key])
                      * (IF rwArgs.multipliers[key] = Null THEN 100
                         ELSE rwArgs.multipliers[key])],
                   Len(FACTOR_LABELS))

----------------------------------------------------------------------------
(* Surfer feedback: the interpreter (interpretFeedback, validateMultipliers, *)
(* keywordFallback) and POST /api/spots/:spotId/feedback                     *)

\* stored multipliers are counted in millionths: 1.0 is MultiplierUnit
MultiplierUnit == 1000000
\* Math.max(0.2, ...) and Math.min(2.5, ...)
MinMultiplier == 200000
MaxMultiplier == 2500000
\* "Keep max 50 feedback entries per spot"
MaxStoredFeedback == 50

\* (faulty variant) only the upper bound is applied
ClampMultiplierUpperOnly(val) ==
    IF val > MaxMultiplier THEN MaxMultiplier ELSE val
\* Math.max(0.2, Math.min(2.5, val))
ClampMultiplier(val) ==
    IF val > MaxMultiplier THEN MaxMultiplier
    ELSE IF val < MinMultiplier THEN MinMultiplier
    ELSE val

\* validateMultipliers(raw): raw[f] is Null where parseFloat gives NaN (the
\* factor is missing or not numeric), else the parsed number
validateMultipliers(raw) ==
    [f \in FactorKeys |->
        ClampMultiplier(IF raw[f] = Null THEN MultiplierUnit ELSE raw[f])]

\* one keyword of a factor found in the text: its context holds a "more"
\* pattern, a "less" pattern, both or neither
applyKeyword(val, hit) ==
    LET more == IF hit \in {"more", "both"}
                THEN (IF (val * 18) \div 10 < MaxMultiplier THEN (val * 18) \div 10
                      ELSE MaxMultiplier)
                ELSE val
    IN IF hit \in {"less", "both"}
       THEN (IF (more * 4) \div 10 > MinMultiplier THEN (more * 4) \div 10
             ELSE MinMultiplier)
       ELSE more

\* the loop over the keywords of one factor
RECURSIVE applyKeywords(_, _)
applyKeywords(val, hits) ==
    IF hits = <<>> THEN val
    ELSE applyKeywords(applyKeyword(val, Head(hits)), Tail(hits))

\* keywordFallback(text): a text is what its keywords' contexts hold, per factor
keywordFallback(text) ==
    [f \in FactorKeys |-> applyKeywords(MultiplierUnit, text[f])]

\* interpretFeedback(text) for what the language model replied: no key, an
\* API error, an empty reply or an exception give the keyword fallback; a
\* reply that parses to null makes validateMultipliers throw, which is caught
interpretFeedback(text, reply) ==
    IF reply.kind = "json" THEN validateMultipliers(reply.raw)
    ELSE keywordFallback(text)

\* the sum of (e.multipliers[f] || 1.0) over the first n entries
RECURSIVE MultiplierSum(_, _, _)
MultiplierSum(entries, f, n) ==
    IF n = 0 THEN 0
    ELSE (IF Truthy(entries[n].multipliers[f]) THEN entries[n].multipliers[f]
          ELSE MultiplierUnit)
         + MultiplierSum(entries, f, n - 1)

\* aggregateMultipliers(entries): <<>> for null, else the means rounded to
\* two decimals, in hundredths, in a 1-tuple
aggregateMultipliers(entries) ==
    IF Len(entries) = 0 THEN <<>>
    ELSE << [f \in FactorKeys |->
               MathRound(MultiplierSum(entries, f, Len(entries)),
                         Len(entries) * (MultiplierUnit \div 100))] >>

\* (faulty variant) slice(0, 50): the oldest entries are kept
KeepOldest(entries) ==
    IF Len(entries) > MaxStoredFeedback THEN SubSeq(entries, 1, MaxStoredFeedback)
    ELSE entries
\* "if (length > 50) allFeedback[spotId] = allFeedback[spotId].slice(-50)"
KeepMostRecent(entries) ==
    IF Len(entries) > MaxStoredFeedback
    THEN SubSeq(entries, Len(entries) - MaxStoredFeedback + 1, Len(entries))
    ELSE entries

----------------------------------------------------------------------------
(* Feedback requests *)

\* the number of POST requests of one behaviour
MaxFeedbackRequests == 2
FeedbackRequests == 1..MaxFeedbackRequests

\* texts of 10 characters or more, as the keyword contexts per factor
NoKeywords == [f \in FactorKeys |-> <<>>]
FeedbackTexts ==
    { NoKeywords,
      [NoKeywords EXCEPT !["windDirection"] = <<"more", "more">>,
                         !["windSpeed"] = <<"more">>,
                         !["waveDirection"] = <<"less">>],
      [NoKeywords EXCEPT !["waveHeight"] = <<"less", "less">>,
                         !["wavePeriod"] = <<"both", "more">>,
                         !["swellQuality"] = <<"both", "less">>] }

\* what the language model's JSON holds per factor, in millionths; Null for a
\* missing or non-numeric value
RawMultiplierSamples ==
    { [f \in FactorKeys |-> Null],
      [waveHeight |-> 1000000, wavePeriod |-> 1500000, swellQuality |-> 0,
       windSpeed |-> -500000, windDirection |-> 300000, waveDirection |-> Null],
      [waveHeight |-> 9000000, wavePeriod |-> 2500000, swellQuality |-> 200000,
       windSpeed |-> 199999, windDirection |-> 2500001, waveDirection |-> 100] }

InterpreterReplies ==
    { [kind |-> "unavailable", raw |-> <<>>], [kind |-> "jsonNull", raw |-> <<>>] }
    \cup { [kind |-> "json", raw |-> raw] : raw \in RawMultiplierSamples }

\* an entry of the feedback file; req names the request whose text it holds,
\* 0 for an entry stored before the behaviour starts
FeedbackEntry(req, multipliers) == [req |-> req, multipliers |-> multipliers]

\* the file's list for the spot as earlier requests left it
PriorFeedback(n) ==
    [i \in 1..n |->
        FeedbackEntry(0, [f \in FactorKeys |->
                            IF i % 2 = 0 THEN MinMultiplier ELSE MaxMultiplier])]

FeedbackRequestIdle ==
    [pc |-> "idle", text |-> <<>>, reply |-> <<>>, status |-> 0,
     yourMultipliers |-> <<>>, multipliers |-> <<>>, feedbackCount |-> 0]

InitFeedback ==
    /\ RouteIdle
    /\ AggregatorIdle
    /\ PureIdle
    /\ ReweightIdle
    /\ CacheIdle
    /\ McpIdle
    /\ \E n \in {0, MaxStoredFeedback - 1, MaxStoredFeedback} :
          /\ feedbackFile = PriorFeedback(n)
          /\ feedbackLog = PriorFeedback(n)
    /\ feedbackReq = [r \in FeedbackRequests |-> FeedbackRequestIdle]

\* a POST without a text of at least 10 characters: 400, nothing interpreted
ReceiveInvalidFeedback(r) ==
    /\ feedbackReq[r].pc = "idle"
    /\ feedbackReq' = [feedbackReq EXCEPT ![r].pc = "responded", ![r].status = 400]
    /\ UNCHANGED <<feedbackFile, feedbackLog, routeVars, aggVars, pureVars, rwVars,
                   cacheVars, mcpVars>>

\* a POST with a valid text: the handler runs to "await interpretFeedback"
ReceiveFeedback(r, text) ==
    /\ feedbackReq[r].pc = "idle"
    /\ feedbackReq' = [feedbackReq EXCEPT ![r].pc = "awaiting", ![r].text = text]
    /\ UNCHANGED <<feedbackFile, feedbackLog, routeVars, aggVars, pureVars, rwVars,
                   cacheVars, mcpVars>>

\* interpretFeedback returns and the handler runs to its end without another
\* await: load, push, slice, save, aggregate, respond
StoreFeedback(r, reply) ==
    /\ feedbackReq[r].pc = "awaiting"
    /\ LET multipliers == interpretFeedback(feedbackReq[r].text, reply)
           entry == FeedbackEntry(r, multipliers)
           stored == KeepMostRecent(Append(feedbackFile, entry))
       IN /\ feedbackFile' = stored
          /\ feedbackLog' = Append(feedbackLog, entry)
          /\ feedbackReq' = [feedbackReq EXCEPT
                               ![r].pc = "responded",
                               ![r].reply = reply,
                               ![r].status = 200,
                               ![r].yourMultipliers = <<multipliers>>,
                               ![r].multipliers = aggregateMultipliers(stored),
                               ![r].feedbackCount = Len(stored)]
    /\ UNCHANGED <<routeVars, aggVars, pureVars, rwVars, cacheVars, mcpVars>>

NextFeedback ==
    \/ \E r \in FeedbackRequests : ReceiveInvalidFeedback(r)
    \/ \E r \in FeedbackRequests, text \in FeedbackTexts : ReceiveFeedback(r, text)
    \/ \E r \in FeedbackRequests, reply \in InterpreterReplies : StoreFeedback(r, reply)

SpecFeedback == InitFeedback /\ [][NextFeedback]_vars

----------------------------------------------------------------------------
(* Properties of the feedback route *)

\* the requests answered with success
AcceptedFeedback == { r \in FeedbackRequests : feedbackReq[r].status = 200 }

\* stored multipliers lie in 0.2..2.5, aggregated ones (hundredths) likewise
StoredInRange(multipliers) ==
    \A f \in FactorKeys :
        multipliers[f] >= MinMultiplier /\ multipliers[f] <= MaxMultiplier
AggregatedInRange(avg) ==
    avg # <<>> => \A f \in FactorKeys : avg[1][f] >= 20 /\ avg[1][f] <= 250

\* C26: whatever the interpreter returned, every multiplier stored with a
\* feedback entry and every aggregated multiplier given out lies in
\* 0.2..2.5, and a factor the language model left out or gave no number for
\* is stored as 1.0
C26_MultipliersBounded ==
    /\ \A i \in 1..Len(feedbackFile) : StoredInRange(feedbackFile[i].multipliers)
    /\ AggregatedInRange(aggregateMultipliers(feedbackFile))
    /\ \A r \in AcceptedFeedback :
          /\ StoredInRange(feedbackReq[r].yourMultipliers[1])
          /\ AggregatedInRange(feedbackReq[r].multipliers)
          /\ feedbackReq[r].reply.kind = "json" =>
                \A f \in FactorKeys :
                    feedbackReq[r].reply.raw[f] = Null =>
                        feedbackReq[r].yourMultipliers[1][f] = MultiplierUnit

\* a stored entry whose language-model values were negative, zero, above 2.5
\* and missing
C26_Witness ==
    \E r \in AcceptedFeedback :
        /\ feedbackReq[r].reply.kind = "json"
        /\ feedbackReq[r].reply.raw["windSpeed"] < 0
        /\ feedbackReq[r].reply.raw["waveDirection"] = Null
        /\ feedbackReq[r].yourMultipliers[1]["windSpeed"] = MinMultiplier
        /\ feedbackReq[r].yourMultipliers[1]["waveDirection"] = MultiplierUnit
        /\ \E i \in 1..Len(feedbackFile) :
              feedbackFile[i] = FeedbackEntry(r, feedbackReq[r].yourMultipliers[1])

\* the positions of a request's entries in the history
LogPositions(r) == { i \in 1..Len(feedbackLog) : feedbackLog[i].req = r }

\* the last n entries of a list
LastEntries(entries, n) ==
    [i \in 1..(IF Len(entries) < n THEN Len(entries) ELSE n) |->
        entries[i + (IF Len(entries) < n THEN 0 ELSE Len(entries) - n)]]

----------------------------------------------------------------------------
(* The conditions cache over time: GET /api/conditions/:spotId for one spot, *)
(* several requests, and the clock of node-cache                             *)

\* cache.set(key, response, 600): the time to live, in minutes
CacheTtlMinutes == 10
\* the clock advances in steps of this many minutes, up to MaxClock
TickMinutes == 5
MaxClock == 20
\* the number of GET requests of one behaviour
MaxCacheRequests == 3
CacheRequests == 1..MaxCacheRequests

\* req.query.refresh: absent, or the string given
RefreshValues == {"undefined", "", "true", "false"}
\* !refresh is false
RefreshSet(r) == r \notin {"undefined", ""}

\* the stored response and the time node-cache drops it
CacheEntryOf(body, now) == [body |-> body, expires |-> now + CacheTtlMinutes]

\* (faulty variant) an entry is served however old it is
CacheGetIgnoringTtl(entry, now) == entry
\* cache.get(key): the entry, unless its time to live is over
CacheGet(entry, now) ==
    IF entry # <<>> /\ entry[1].expires < now THEN <<>> ELSE entry

\* the response built from the data of one fetchSurfData call: its score and
\* conditions are named by the number of the call
FreshBody(fetchNo) == [score |-> fetchNo, conditions |-> fetchNo]

CacheRequestIdle ==
    [pc |-> "idle", refresh |-> "undefined", fetchNo |-> 0, status |-> 0,
     fromCache |-> FALSE, body |-> <<>>]

\* requests are numbered in the order of their arrival
NextToArrive(r) ==
    /\ cacheReq[r].pc = "idle"
    /\ \A q \in CacheRequests : q < r => cacheReq[q].pc # "idle"

InitCache ==
    /\ RouteIdle
    /\ AggregatorIdle
    /\ PureIdle
    /\ ReweightIdle
    /\ FeedbackIdle
    /\ McpIdle
    /\ cacheClock = 0
    /\ cacheEntry = <<>>
    /\ cacheReq = [r \in CacheRequests |-> CacheRequestIdle]
    /\ fetchCalls = 0

\* a GET that fails validation of weight or skill: 400 before the cache is read
RejectGet(r) ==
    /\ NextToArrive(r)
    /\ cacheReq' = [cacheReq EXCEPT ![r].pc = "responded", ![r].status = 400]
    /\ UNCHANGED <<cacheClock, cacheEntry, fetchCalls, routeVars, aggVars, pureVars,
                   rwVars, feedbackVars, mcpVars>>

\* a valid GET: without refresh and with a live entry it answers from the
\* cache; otherwise it calls fetchSurfData and suspends
ReceiveGet(r, refreshValue) ==
    /\ NextToArrive(r)
    /\ LET cached == IF RefreshSet(refreshValue) THEN <<>>
                     ELSE CacheGet(cacheEntry, cacheClock)
       IN IF cached # <<>>
          THEN /\ cacheReq' = [cacheReq EXCEPT ![r].pc = "responded",
                                               ![r].refresh = refreshValue,
                                               ![r].status = 200,
                                               ![r].fromCache = TRUE,
                                               ![r].body = <<cached[1].body>>]
               /\ UNCHANGED <<cacheEntry, fetchCalls>>
          ELSE /\ cacheReq' = [cacheReq EXCEPT ![r].pc = "awaiting",
                                               ![r].refresh = refreshValue,
                                               ![r].fetchNo = fetchCalls + 1]
               /\ fetchCalls' = fetchCalls + 1
               /\ cacheEntry' = IF RefreshSet(refreshValue) THEN cacheEntry
                                ELSE CacheGet(cacheEntry, cacheClock)
    /\ UNCHANGED <<cacheClock, routeVars, aggVars, pureVars, rwVars, feedbackVars,
                   mcpVars>>

\* fetchSurfData returned: the response is built, cached for 10 minutes, sent
FetchSucceeds(r) ==
    /\ cacheReq[r].pc = "awaiting"
    /\ cacheEntry' = <<CacheEntryOf(FreshBody(cacheReq[r].fetchNo), cacheClock)>>
    /\ cacheReq' = [cacheReq EXCEPT ![r].pc = "responded",
                                    ![r].status = 200,
                                    ![r].fromCache = FALSE,
                                    ![r].body = <<FreshBody(cacheReq[r].fetchNo)>>]
    /\ UNCHANGED <<cacheClock, fetchCalls, routeVars, aggVars, pureVars, rwVars,
                   feedbackVars, mcpVars>>

\* fetchSurfData threw: the error is passed on, the cache is left alone
FetchFails(r) ==
    /\ cacheReq[r].pc = "awaiting"
    /\ cacheReq' = [cacheReq EXCEPT ![r].pc = "responded", ![r].status = 500]
    /\ UNCHANGED <<cacheClock, cacheEntry, fetchCalls, routeVars, aggVars, pureVars,
                   rwVars, feedbackVars, mcpVars>>

\* time passes
Tick ==
    /\ cacheClock + TickMinutes <= MaxClock
    /\ cacheClock' = cacheClock + TickMinutes
    /\ UNCHANGED <<cacheEntry, cacheReq, fetchCalls, routeVars, aggVars, pureVars,
                   rwVars, feedbackVars, mcpVars>>

NextCache ==
    \/ \E r \in CacheRequests : RejectGet(r)
    \/ \E r \in CacheRequests, refreshValue \in RefreshValues : ReceiveGet(r, refreshValue)
    \/ \E r \in CacheRequests : FetchSucceeds(r)
    \/ \E r \in CacheRequests : FetchFails(r)
    \/ Tick

SpecCache == InitCache /\ [][NextCache]_vars

----------------------------------------------------------------------------
(* Properties of the cache *)

\* request r is received in this step as a valid GET
GetReceived(r) ==
    /\ cacheReq[r].pc = "idle"
    /\ cacheReq'[r].pc # "idle"
    /\ cacheReq'[r].status # 400

\* an entry is stored and its 10 minutes are not over
EntryLive == cacheEntry # <<>> /\ cacheClock <= cacheEntry[1].expires

\* C27: a GET without refresh received while an entry is stored and its 10
\* minutes are not over is answered with the stored score and conditions,
\* fromCache = true, and no adapter is invoked; a GET with refresh set always
\* invokes the adapters; a fetch that succeeds replaces the entry, which then
\* lives 10 minutes from that moment; a GET received with no live entry
\* fetches again
C27_CachedForTenMinutes ==
    [][\A r \in CacheRequests :
         /\ (GetReceived(r) /\ ~RefreshSet(cacheReq'[r].refresh) /\ EntryLive) =>
               /\ cacheReq'[r].pc = "responded"
               /\ cacheReq'[r].status = 200
               /\ cacheReq'[r].fromCache
               /\ cacheReq'[r].body = <<cacheEntry[1].body>>
               /\ fetchCalls' = fetchCalls
               /\ cacheEntry' = cacheEntry
         /\ (GetReceived(r) /\ (RefreshSet(cacheReq'[r].refresh) \/ ~EntryLive)) =>
               /\ cacheReq'[r].pc = "awaiting"
               /\ fetchCalls' = fetchCalls + 1
         /\ (cacheReq[r].pc = "awaiting" /\ cacheReq'[r].pc = "responded"
             /\ cacheReq'[r].status = 200) =>
               /\ ~cacheReq'[r].fromCache
               /\ cacheEntry' = <<[body |-> cacheReq'[r].body[1],
                                   expires |-> cacheClock + CacheTtlMinutes]>>
    ]_vars

\* one request fetched and stored, a second was answered from the cache with
\* the same body, time ran past the 10 minutes, and a third fetched again and
\* replaced the entry
C27_Witness ==
    /\ cacheReq[1].status = 200 /\ ~cacheReq[1].fromCache
    /\ cacheReq[2].status = 200 /\ cacheReq[2].fromCache
    /\ cacheReq[2].body = cacheReq[1].body
    /\ cacheReq[3].status = 200 /\ ~cacheReq[3].fromCache
    /\ ~RefreshSet(cacheReq[3].refresh)
    /\ cacheReq[3].body # cacheReq[1].body
    /\ cacheEntry # <<>>
    /\ cacheEntry[1].body = cacheReq[3].body[1]
    /\ cacheEntry[1].expires > CacheTtlMinutes + CacheTtlMinutes
    /\ fetchCalls = 2

----------------------------------------------------------------------------
(* callMcpTool: one call of a Bright Data MCP tool over the stdio of a       *)
(* spawned server, with the server's output, the process events and the      *)
(* timeout arriving in any order                                             *)

\* the number of lines the server writes to stdout in one behaviour
MaxStdoutLines == 3
\* the number of complete lines one 'data' chunk can carry
MaxChunkLines == 2

\* the lines of stdout by the branch of the handler they take:
\*   init_ok       {id: 1, result}          call_ok   {id: 2, result}
\*   init_error    {id: 1, error}           call_error {id: 2, error}
\*   init_empty    {id: 1}                  rpc_error {error} with another id
\*   notification  a message with no id     garbage   not JSON, skipped
StdoutLines ==
    {"init_ok", "init_error", "init_empty", "call_ok", "call_error", "rpc_error",
     "notification", "garbage"}

Chunks ==
    UNION { [1..n -> StdoutLines] : n \in 1..MaxChunkLines }

\* the locals of one call and its effects on the outside
McpState ==
    [initDone |-> initDone, settled |-> settled, promise |-> mcpPromise,
     timerArmed |-> timerArmed, killSignals |-> killSignals,
     stdinWrites |-> stdinWrites]

\* finish(err, result): the first call settles the promise, clears the timer
\* and sends SIGTERM; a promise already settled keeps its outcome
finish(st, outcome) ==
    IF st.settled THEN st
    ELSE [st EXCEPT !.settled = TRUE,
                    !.timerArmed = FALSE,
                    !.killSignals = @ + 1,
                    !.promise = IF @ = "pending" THEN outcome ELSE @]

\* (faulty variant) the initialize branch is taken for every id 1 result
InitBranchUnguarded(done) == TRUE
\* the condition !initDone of the initialize branch
InitBranch(done) == ~done

\* the body of the for loop for one line
HandleLine(st, line) ==
    IF line = "garbage" THEN st
    ELSE IF line = "init_ok" /\ InitBranch(st.initDone)
    THEN [st EXCEPT !.initDone = TRUE,
                    !.stdinWrites = @ \o <<"notifications/initialized", "tools/call">>]
    ELSE IF line = "call_error" THEN finish(st, "rejected: MCP tool error")
    ELSE IF line = "call_ok" THEN finish(st, "resolved")
    ELSE IF line \in {"init_error", "rpc_error"} THEN finish(st, "rejected: MCP error")
    ELSE st

\* the 'data' handler: the lines of the chunk, in order
RECURSIVE HandleLines(_, _)
HandleLines(st, lines) ==
    IF lines = <<>> THEN st
    ELSE HandleLines(HandleLine(st, Head(lines)), Tail(lines))

\* the events handled so far, oldest first
StdoutSoFar == SelectSeq(mcpServer, LAMBDA e : e \in StdoutLines)
Happened(e) == \E i \in 1..Len(mcpServer) : mcpServer[i] = e

SetMcpState(st) ==
    /\ initDone' = st.initDone
    /\ settled' = st.settled
    /\ mcpPromise' = st.promise
    /\ timerArmed' = st.timerArmed
    /\ killSignals' = st.killSignals
    /\ stdinWrites' = st.stdinWrites

\* the state when callMcpTool returns its promise: the server is spawned, the
\* timer runs and the initialize request is written
InitMcp ==
    /\ RouteIdle
    /\ AggregatorIdle
    /\ PureIdle
    /\ ReweightIdle
    /\ FeedbackIdle
    /\ CacheIdle
    /\ initDone = FALSE
    /\ settled = FALSE
    /\ mcpPromise = "pending"
    /\ timerArmed = TRUE
    /\ killSignals = 0
    /\ stdinWrites = <<"initialize">>
    /\ mcpServer = <<>>

\* mcpServer.stdout.on('data'): a chunk of complete lines; stdout is closed
\* once the process emitted 'close'
StdoutData(lines) ==
    /\ ~Happened("close")
    /\ Len(StdoutSoFar) + Len(lines) <= MaxStdoutLines
    /\ SetMcpState(HandleLines(McpState, lines))
    /\ mcpServer' = mcpServer \o lines
    /\ UNCHANGED <<routeVars, aggVars, pureVars, rwVars, feedbackVars, cacheVars>>

\* the setTimeout callback, unless clearTimeout came first
TimerFires ==
    /\ timerArmed
    /\ SetMcpState(finish([McpState EXCEPT !.timerArmed = FALSE],
                          "rejected: timed out"))
    /\ mcpServer' = Append(mcpServer, "timeout")
    /\ UNCHANGED <<routeVars, aggVars, pureVars, rwVars, feedbackVars, cacheVars>>

\* mcpServer.on('error')
ProcessError ==
    /\ ~Happened("error")
    /\ ~Happened("close")
    /\ SetMcpState(finish(McpState, "rejected: Spawn failed"))
    /\ mcpServer' = Append(mcpServer, "error")
    /\ UNCHANGED <<routeVars, aggVars, pureVars, rwVars, feedbackVars, cacheVars>>

\* mcpServer.on('close')
ProcessClose ==
    /\ ~Happened("close")
    /\ SetMcpState(IF ~settled THEN finish(McpState, "rejected: server exited")
                   ELSE McpState)
    /\ mcpServer' = Append(mcpServer, "close")
    /\ UNCHANGED <<routeVars, aggVars, pureVars, rwVars, feedbackVars, cacheVars>>

NextMcp ==
    \/ \E lines \in Chunks : StdoutData(lines)
    \/ TimerFires
    \/ ProcessError
    \/ ProcessClose

SpecMcp == InitMcp /\ [][NextMcp]_vars

\* a timer that stays armed fires: the event loop runs the setTimeout callback
SpecMcpLive == SpecMcp /\ WF_vars(TimerFires)

----------------------------------------------------------------------------
(* Properties of callMcpTool *)

\* the outcome each terminating event asks for, "" for the others
OutcomeOf(e) ==
    CASE e = "call_ok" -> "resolved"
      [] e = "call_error" -> "rejected: MCP tool error"
      [] e \in {"init_error", "rpc_error"} -> "rejected: MCP error"
      [] e = "timeout" -> "rejected: timed out"
      [] e = "error" -> "rejected: Spawn failed"
      [] e = "close" -> "rejected: server exited"
      [] OTHER -> ""

TerminatingPositions ==
    { i \in 1..Len(mcpServer) : OutcomeOf(mcpServer[i]) # "" }

FirstTerminating ==
    CHOOSE i \in TerminatingPositions : \A j \in TerminatingPositions : i <= j

ToolCallsWritten ==
    Cardinality({ i \in 1..Len(stdinWrites) : stdinWrites[i] = "tools/call" })

\* tools/call is written after the initialize response only, and once
ToolCallAfterInitOnce ==
    /\ ToolCallsWritten = (IF Happened("init_ok") THEN 1 ELSE 0)
    /\ stdinWrites \in {<<"initialize">>,
                        <<"initialize", "notifications/initialized", "tools/call">>}

\* the promise has the outcome of the first terminating event, whatever came
\* later, and is pending while there was none
FirstTerminatingEventWins ==
    mcpPromise = (IF TerminatingPositions = {} THEN "pending"
                  ELSE OutcomeOf(mcpServer[FirstTerminating]))

\* a settled promise means the timer is cleared and SIGTERM was sent, once
SettledCleansUp ==
    (mcpPromise # "pending") =>
        /\ settled
        /\ ~timerArmed
        /\ killSignals = 1

\* the step that settles the promise clears the timer and sends SIGTERM, and
\* no later step changes the outcome or sends another signal
SettlingStep ==
    /\ (mcpPromise = "pending" /\ mcpPromise' # "pending") =>
          (~timerArmed' /\ killSignals' = killSignals + 1)
    /\ (mcpPromise # "pending") =>
          (mcpPromise' = mcpPromise /\ killSignals' = killSignals /\ ~timerArmed')

\* C30: under every interleaving of stdout lines, process error, process
\* close and the timeout, tools/call is written only after the initialize
\* response and at most once; the promise settles exactly once, with the
\* outcome of the first terminating event, later ones being ignored; and
\* settling clears the timer and signals the server process to terminate
C30_McpCallSettlesOnce ==
    /\ [](ToolCallAfterInitOnce /\ FirstTerminatingEventWins /\ SettledCleansUp)
    /\ [][SettlingStep]_vars
    /\ <>(mcpPromise # "pending")

\* the server answered initialize twice and then the tool call, the call
\* resolved, and the close of the killed server came afterwards
C30_Witness ==
    /\ mcpPromise = "resolved"
    /\ StdoutSoFar = <<"init_ok", "init_ok", "call_ok">>
    /\ Happened("close")
    /\ Cardinality(TerminatingPositions) = 2
    /\ ToolCallsWritten = 1
    /\ killSignals = 1

====
